---- MODULE Spec2Model ----
(***************************************************************************)
(* A model of three passes of r9cc: the semantic analyzer (sema.rs), the   *)
(* IR generator (gen_ir.rs) and the preprocessor (preprocess.rs).          *)
(* Every pass is a state machine over its process-wide statics and the     *)
(* locals of its driver loop; the recursive tree walks are RECURSIVE       *)
(* operators threading that state, and a Rust panic is an `err` result     *)
(* that stops the pass.                                                    *)
(***************************************************************************)
EXTENDS Integers, Sequences, FiniteSets, TLC

VARIABLES
  \* sema.rs: the statics, then the locals of sema()
  STRLABEL, GLOBALS, STACKSIZE,
  topenv, nodes, new_nodes, sema_pc,
  \* gen_ir.rs: the statics, then the locals of gen_ir()
  NREG, NLABEL, CODE,
  gen_nodes, v, gen_pc,
  \* the machine that runs the IR of one expression
  ex_toks, ex_code, ex_pc, ex_regs, ex_mem, ex_seen,
  \* preprocess.rs: the Context, then the locals of preprocess() and apply_funclike()
  pp_stack, macros, pp_pc, pp_err, pp_result, pp_start, pp_args

semaVars == <<STRLABEL, GLOBALS, STACKSIZE, topenv, nodes, new_nodes, sema_pc>>

genVars == <<NREG, NLABEL, CODE, gen_nodes, v, gen_pc>>

execVars == <<ex_toks, ex_code, ex_pc, ex_regs, ex_mem, ex_seen>>

ppVars == <<pp_stack, macros, pp_pc, pp_err, pp_result, pp_start, pp_args>>

vars == <<semaVars, genVars, execVars, ppVars>>

(***************************************************************************)
(* Bounds of the model.                                                    *)
(***************************************************************************)
\* sema: the AST nodes (items, parameters, statements) of one translation unit
MaxUnitNodes == 6

\* gen_ir: the AST nodes (functions, parameters, statements, expressions) of
\* one typed translation unit
MaxGenNodes == 6

\* gen_ir: the top-level items of one unit of small functions
MaxFuncs == 3

\* execution: the AST nodes of the expression that is lowered and run
MaxExecNodes == 5

\* execution: the largest value the local `a` holds
MaxVal == 2

\* preprocess: the tokens of a generated macro invocation after its `F (`
MaxTailToks == 5

\* preprocess: the tokens of the generated body of a macro S(x)
MaxBodyToks == 3

\* sema called more than once in a process: the top-level items of one unit
MaxUnitItems == 3

\* sema on one typed expression: the nodes of the expression
MaxWalkNodes == 3

\* sema called more than once in a process: the globals accumulated before
\* a further call is explored
MaxKeptGlobals == 2

(***************************************************************************)
(* Types (Ctype with its size and alignment) and AST nodes.  Every value   *)
(* of one kind has the same record shape; an Option is a sequence of       *)
(* length 0 or 1.                                                          *)
(***************************************************************************)
IntTy == [ty |-> "Int", size |-> 4, align |-> 4, of |-> <<>>, len |-> 0, members |-> <<>>]

VoidTy == [ty |-> "Void", size |-> 0, align |-> 0, of |-> <<>>, len |-> 0, members |-> <<>>]

PtrTo(t) == [ty |-> "Ptr", size |-> 8, align |-> 8, of |-> <<t>>, len |-> 0, members |-> <<>>]

AryOf(t, n) ==
  [ty |-> "Ary", size |-> t.size * n, align |-> t.align, of |-> <<t>>, len |-> n,
   members |-> <<>>]

NoScope == [kind |-> "None", offset |-> 0, data |-> "", len |-> 0, ext |-> FALSE]

Local(offset) == [kind |-> "Local", offset |-> offset, data |-> "", len |-> 0, ext |-> FALSE]

Global(data, len, ext) ==
  [kind |-> "Global", offset |-> 0, data |-> data, len |-> len, ext |-> ext]

\* Node: op is the NodeType tag, name its String / TokenType payload, val its
\* numeric payload, kids its child nodes in field order, scope its Scope.
MkNode(op, name, val, ty, kids, scope) ==
  [op |-> op, name |-> name, val |-> val, ty |-> ty, kids |-> kids, scope |-> scope]

NewNode(op, name, kids) == MkNode(op, name, 0, IntTy, kids, NoScope)

NewVar(ty, name, scope) == [name |-> name, ty |-> ty, scope |-> scope]

\* util::roundup, for the power-of-two alignments the types carry
roundup(x, align) == ((x + align - 1) \div align) * align

(***************************************************************************)
(* sema.rs: Env.  An Env chain is a sequence of frames, innermost first;   *)
(* a frame maps names to Vars.                                             *)
(***************************************************************************)
EmptyFrame == [n \in {} |-> NewVar(IntTy, "", NoScope)]

EnvNew(next) == <<EmptyFrame>> \o next

EnvInsert(env, name, var) == [env EXCEPT ![1] = (name :> var) @@ env[1]]

\* a mutant of EnvFind: the chain searched from the outermost frame inwards
EnvFindOuterFirst(env, name) ==
  LET hits == {i \in 1..Len(env) : name \in DOMAIN env[i]} IN
  IF hits = {} THEN <<>>
  ELSE LET i == CHOOSE j \in hits : \A k \in hits : k <= j IN <<env[i][name]>>

\* Env::find: the first frame, innermost to outermost, that binds the name
EnvFind(env, name) ==
  LET hits == {i \in 1..Len(env) : name \in DOMAIN env[i]} IN
  IF hits = {} THEN <<>>
  ELSE LET i == CHOOSE j \in hits : \A k \in hits : j <= k IN <<env[i][name]>>

maybe_decay(base, decay) ==
  IF ~decay THEN base
  ELSE IF base.ty.ty = "Ary"
       THEN MkNode("Addr", "", 0, PtrTo(base.ty.of[1]), <<base>>, NoScope)
       ELSE base

\* check_lval: TRUE when it returns, FALSE when it panics
check_lval(node) == node.op \in {"Lvar", "Gvar", "Deref", "Dot"}

(***************************************************************************)
(* sema.rs: walk.  st holds the statics [STRLABEL, GLOBALS, STACKSIZE];    *)
(* the result carries the rewritten node, the env as the &mut left it, the *)
(* statics, and err # "" when the walk panicked.                           *)
(***************************************************************************)
WalkOk(node, env, st) == [node |-> node, env |-> env, st |-> st, err |-> ""]

WalkPanic(node, env, st, msg) == [node |-> node, env |-> env, st |-> st, err |-> msg]

\* the CompStmt arm's scope: a new Env whose next is a clone of env
CompStmtEnv(env) == EnvNew(env)

\* the Vardef arm's allocation: the cursor after this variable
VardefOffset(stacksize, ty) == roundup(stacksize, ty.align) + ty.size

RECURSIVE walk(_, _, _, _)
RECURSIVE walk_all(_, _, _, _, _)

\* `ns.into_iter().map(|n| walk(n, env, decay)).collect()`, stopping at a panic
walk_all(ns, env, st, decay, acc) ==
  IF ns = <<>> THEN [nodes |-> acc, env |-> env, st |-> st, err |-> ""]
  ELSE LET r == walk(Head(ns), env, st, decay) IN
       IF r.err # "" THEN [nodes |-> acc, env |-> r.env, st |-> r.st, err |-> r.err]
       ELSE walk_all(Tail(ns), r.env, r.st, decay, Append(acc, r.node))

walk(node, env, st, decay) ==
  LET op == node.op
      \* the arms that only walk their children, in order, with decay = true
      all == walk_all(node.kids, env, st, TRUE, <<>>)
      rebuilt == [node EXCEPT !.kids = all.nodes]
  IN
  CASE op \in {"Num", "Null"} -> WalkOk(node, env, st)
    [] op = "Str" ->
         LET name == ".L.str" \o ToString(st.STRLABEL)
             var == NewVar(node.ty, name, Global(node.name, node.val, FALSE))
             st2 == [st EXCEPT !.STRLABEL = @ + 1, !.GLOBALS = Append(@, var)]
             ret == MkNode("Gvar", name, node.val, node.ty, <<>>, Global("", node.val, FALSE))
         IN WalkOk(maybe_decay(ret, decay), env, st2)
    [] op = "Ident" ->
         LET found == EnvFind(env, node.name) IN
         IF found = <<>> THEN WalkPanic(node, env, st, "undefined variable")
         ELSE LET var == found[1] IN
              IF var.scope.kind = "Local"
              THEN WalkOk(maybe_decay(
                     MkNode("Lvar", "", 0, var.ty, <<>>, Local(var.scope.offset)), decay),
                     env, st)
              ELSE WalkOk(maybe_decay(
                     MkNode("Gvar", var.name, var.scope.len, var.ty, <<>>,
                            Global(var.scope.data, var.scope.len, FALSE)), decay),
                     env, st)
    [] op = "Vardef" ->
         LET offset == VardefOffset(st.STACKSIZE, node.ty)
             st2 == [st EXCEPT !.STACKSIZE = offset]
             env2 == EnvInsert(env, node.name, NewVar(node.ty, node.name, Local(offset)))
             init == walk_all(node.kids, env2, st2, TRUE, <<>>)
         IN IF init.err # "" THEN WalkPanic(node, init.env, init.st, init.err)
            ELSE WalkOk([node EXCEPT !.kids = init.nodes, !.scope = Local(offset)],
                        init.env, init.st)
    [] op \in {"If", "For", "DoWhile", "PreInc", "PreDec", "PostInc", "PostDec", "Neg",
               "Exclamation", "Return", "ExprStmt", "Call", "VecStmt", "Func"} ->
         IF all.err # "" THEN WalkPanic(node, all.env, all.st, all.err)
         ELSE WalkOk(rebuilt, all.env, all.st)
    [] op = "Ternary" ->
         IF all.err # "" THEN WalkPanic(node, all.env, all.st, all.err)
         ELSE WalkOk([rebuilt EXCEPT !.ty = all.nodes[2].ty], all.env, all.st)
    [] op = "StmtExpr" ->
         IF all.err # "" THEN WalkPanic(node, all.env, all.st, all.err)
         ELSE WalkOk([rebuilt EXCEPT !.ty = IntTy], all.env, all.st)
    [] op = "Dot" ->
         IF all.err # "" THEN WalkPanic(node, all.env, all.st, all.err)
         ELSE LET expr == all.nodes[1]
                  ms == expr.ty.members
                  hits == {i \in 1..Len(ms) : ms[i].name = node.name}
              IN IF expr.ty.ty # "Struct"
                 THEN WalkPanic(node, all.env, all.st, "struct expected before '.'")
                 ELSE IF hits = {}
                 THEN WalkPanic(node, all.env, all.st, "member missing")
                 ELSE LET m == ms[CHOOSE i \in hits : \A k \in hits : i <= k] IN
                      WalkOk(maybe_decay(
                        [rebuilt EXCEPT !.ty = m.ty, !.val = m.offset], decay),
                        all.env, all.st)
    [] op = "BinOp" /\ node.name \in {"+", "-"} ->
         IF all.err # "" THEN WalkPanic(node, all.env, all.st, all.err)
         ELSE LET swapped == all.nodes[2].ty.ty = "Ptr"
                  lhs == IF swapped THEN all.nodes[2] ELSE all.nodes[1]
                  rhs == IF swapped THEN all.nodes[1] ELSE all.nodes[2]
              IN IF rhs.ty.ty = "Ptr"
                 THEN WalkPanic(node, all.env, all.st, "'pointer op pointer' is not defined")
                 ELSE WalkOk([node EXCEPT !.kids = <<lhs, rhs>>, !.ty = lhs.ty],
                             all.env, all.st)
    [] op = "BinOp" /\ node.name = "=" ->
         LET l == walk(node.kids[1], env, st, FALSE) IN
         IF l.err # "" THEN WalkPanic(node, l.env, l.st, l.err)
         ELSE IF ~check_lval(l.node) THEN WalkPanic(node, l.env, l.st, "not an lvalue")
         ELSE LET r == walk(node.kids[2], l.env, l.st, TRUE) IN
              IF r.err # "" THEN WalkPanic(node, r.env, r.st, r.err)
              ELSE WalkOk([node EXCEPT !.kids = <<l.node, r.node>>, !.ty = l.node.ty],
                          r.env, r.st)
    [] op = "BinOp" /\ node.name \notin {"+", "-", "="} ->
         IF all.err # "" THEN WalkPanic(node, all.env, all.st, all.err)
         ELSE WalkOk([rebuilt EXCEPT !.ty = all.nodes[1].ty], all.env, all.st)
    [] op = "Addr" ->
         IF all.err # "" THEN WalkPanic(node, all.env, all.st, all.err)
         ELSE IF ~check_lval(all.nodes[1])
         THEN WalkPanic(node, all.env, all.st, "not an lvalue")
         ELSE WalkOk([rebuilt EXCEPT !.ty = PtrTo(all.nodes[1].ty)], all.env, all.st)
    [] op = "Deref" ->
         IF all.err # "" THEN WalkPanic(node, all.env, all.st, all.err)
         ELSE LET t == all.nodes[1].ty IN
              IF t.ty = "Ptr" THEN WalkOk([rebuilt EXCEPT !.ty = t.of[1]], all.env, all.st)
              ELSE IF t.ty = "Void"
              THEN WalkPanic(node, all.env, all.st, "cannot dereference void opinter")
              ELSE WalkPanic(node, all.env, all.st, "operand must be a pointer")
    [] op \in {"Sizeof", "Alignof"} ->
         LET e == walk(node.kids[1], env, st, FALSE) IN
         IF e.err # "" THEN WalkPanic(node, e.env, e.st, e.err)
         ELSE WalkOk(MkNode("Num", "", IF op = "Sizeof" THEN e.node.ty.size
                                        ELSE e.node.ty.align, IntTy, <<>>, NoScope),
                     e.env, e.st)
    [] op = "CompStmt" ->
         LET inner == walk_all(node.kids, CompStmtEnv(env), st, TRUE, <<>>) IN
         IF inner.err # "" THEN WalkPanic(node, env, inner.st, inner.err)
         ELSE WalkOk([node EXCEPT !.kids = inner.nodes], env, inner.st)
    [] OTHER -> WalkPanic(node, env, st, "unknown node type")

(***************************************************************************)
(* The translation units handed to sema(): every sequence of top-level     *)
(* items of at most MaxUnitNodes nodes, a function's body being any        *)
(* nesting of compound statements over definitions and uses of one name.   *)
(* The items are enumerated as token strings ("int x;" "int *x;" "x;" "{"  *)
(* "}") and parsed into the AST the parser would hand over.                *)
(***************************************************************************)
DefInt(n) == MkNode("Vardef", n, 0, IntTy, <<>>, NoScope)

DefPtr(n) == MkNode("Vardef", n, 0, PtrTo(IntTy), <<>>, NoScope)

Use(n) == NewNode("ExprStmt", "", <<NewNode("Ident", n, <<>>)>>)

Block(ss) == NewNode("CompStmt", "", ss)

GlobalDef(n) == MkNode("Vardef", n, 0, IntTy, <<>>, Global("", 4, FALSE))

FuncDef(n, params, body) == NewNode("Func", n, params \o <<Block(body)>>)

SimpleStmt(tok) ==
  CASE tok = "int x;" -> DefInt("x")
    [] tok = "int *x;" -> DefPtr("x")
    [] tok = "x;" -> Use("x")

SimpleToks == {"int x;", "int *x;", "x;"}

\* the table of statement strings: tab[w + 1] holds those of exactly w nodes,
\* for every w a function body has room for
RECURSIVE BuildStmtSeqs(_, _)
BuildStmtSeqs(tab, w) ==
  IF w >= MaxUnitNodes THEN tab
  ELSE LET firsts(k) == IF k = 1 THEN {<<t>> : t \in SimpleToks}
                        ELSE {<<"{">> \o ss \o <<"}">> : ss \in tab[k]}
           new == UNION { {s \o rest : s \in firsts(k), rest \in tab[w - k + 1]} :
                          k \in 1..w }
       IN BuildStmtSeqs(Append(tab, new), w + 1)

StmtSeqs == BuildStmtSeqs(<<{<<>>}>>, 1)

\* ItemsOfSize[w]: the top-level items of exactly w nodes: a global, something
\* that is neither a global nor a function, a function of no or one parameter
ItemsOfSize ==
  [w \in 1..MaxUnitNodes |->
     (IF w = 1 THEN {<<"int x;">>, <<";">>} ELSE {})
     \cup {<<"f(){">> \o body \o <<"}">> : body \in StmtSeqs[w]}
     \cup (IF w = 1 THEN {}
           ELSE {<<"f(int x){">> \o body \o <<"}">> : body \in StmtSeqs[w - 1]})]

\* the statements at the head of toks, up to the "}" that closes their block
RECURSIVE ParseStmts(_)
ParseStmts(toks) ==
  IF toks = <<>> \/ Head(toks) = "}" THEN [stmts |-> <<>>, rest |-> toks]
  ELSE LET inner == ParseStmts(Tail(toks))
           first == IF Head(toks) = "{"
                    THEN [node |-> Block(inner.stmts), rest |-> Tail(inner.rest)]
                    ELSE [node |-> SimpleStmt(Head(toks)), rest |-> Tail(toks)]
           more == ParseStmts(first.rest)
       IN [stmts |-> <<first.node>> \o more.stmts, rest |-> more.rest]

ParseItem(toks) ==
  CASE toks = <<"int x;">> -> GlobalDef("x")
    [] toks = <<";">> -> NewNode("Null", "", <<>>)
    [] Head(toks) = "f(){" -> FuncDef("f", <<>>, ParseStmts(Tail(toks)).stmts)
    [] Head(toks) = "f(int x){" -> FuncDef("f", <<DefInt("x")>>, ParseStmts(Tail(toks)).stmts)

RECURSIVE NodeCount(_)
NodeCount(ns) ==
  IF ns = <<>> THEN 0
  ELSE (IF Head(ns).op = "CompStmt" /\ Head(ns).kids = <<>> THEN 1
        ELSE IF Head(ns).op = "ExprStmt" THEN 1
        ELSE IF Head(ns).op = "Func"
             THEN 1 + NodeCount(SubSeq(Head(ns).kids, 1, Len(Head(ns).kids) - 1))
                    + NodeCount(Head(ns).kids[Len(Head(ns).kids)].kids)
        ELSE 1 + NodeCount(Head(ns).kids))
       + NodeCount(Tail(ns))

(***************************************************************************)
(* sema.rs: sema().  `nodes` is the part of the argument the loop has      *)
(* consumed, new_nodes the functions walked so far.                        *)
(***************************************************************************)
Statics == [STRLABEL |-> STRLABEL, GLOBALS |-> GLOBALS, STACKSIZE |-> STACKSIZE]

IsGlobalDef(node) == node.op = "Vardef" /\ node.scope.kind = "Global"

\* a mutant of StackAfterFunc: the cursor is not reset
StackAfterFuncKeep(stacksize) == stacksize

\* the cursor sema() leaves for the next function
StackAfterFunc(stacksize) == 0

\* the statics as the process starts, and the locals of a sema() not yet called
SemaIdle ==
  /\ STRLABEL = 0
  /\ GLOBALS = <<>>
  /\ STACKSIZE = 0
  /\ topenv = <<>>
  /\ nodes = <<>>
  /\ new_nodes = <<>>
  /\ sema_pc = "idle"

SemaInit ==
  /\ STRLABEL = 0
  /\ GLOBALS = <<>>
  /\ STACKSIZE = 0
  /\ topenv = EnvNew(<<>>)
  /\ nodes = <<>>
  /\ new_nodes = <<>>
  /\ sema_pc = "loop"

\* one iteration of the loop on a global variable definition
SemaGlobal(node) ==
  /\ sema_pc = "loop"
  /\ IsGlobalDef(node)
  /\ LET var == NewVar(node.ty, node.name, node.scope) IN
     /\ GLOBALS' = Append(GLOBALS, var)
     /\ topenv' = EnvInsert(topenv, node.name, var)
  /\ nodes' = Append(nodes, node)
  /\ UNCHANGED <<STRLABEL, STACKSIZE, new_nodes, sema_pc>>

\* one iteration of the loop on anything else: the assert, then the walk
SemaFunc(node) ==
  /\ sema_pc = "loop"
  /\ ~IsGlobalDef(node)
  /\ nodes' = Append(nodes, node)
  /\ IF node.op # "Func"
     THEN /\ sema_pc' = "panic"
          /\ UNCHANGED <<STRLABEL, GLOBALS, STACKSIZE, topenv, new_nodes>>
     ELSE LET r == walk(node, topenv, Statics, TRUE) IN
          /\ STRLABEL' = r.st.STRLABEL
          /\ GLOBALS' = r.st.GLOBALS
          /\ IF r.err # ""
             THEN /\ sema_pc' = "panic"
                  /\ STACKSIZE' = r.st.STACKSIZE
                  /\ UNCHANGED <<topenv, new_nodes>>
             ELSE /\ new_nodes' = Append(new_nodes, [r.node EXCEPT !.val = r.st.STACKSIZE])
                  /\ STACKSIZE' = StackAfterFunc(r.st.STACKSIZE)
                  /\ topenv' = r.env
                  /\ UNCHANGED sema_pc

\* the loop ends: sema returns (new_nodes, GLOBALS)
SemaReturn ==
  /\ sema_pc = "loop"
  /\ sema_pc' = "done"
  /\ UNCHANGED <<STRLABEL, GLOBALS, STACKSIZE, topenv, nodes, new_nodes>>

\* the items the rest of the unit has room for
NextItems == UNION {ItemsOfSize[w] : w \in 1..(MaxUnitNodes - NodeCount(nodes))}


(***************************************************************************)
(* Reading the analyzer's input and output side by side.                   *)
(***************************************************************************)
\* the functions among the items consumed; new_nodes[k] is the walk of FuncsIn[k]
FuncsIn == SelectSeq(nodes, LAMBDA n : n.op = "Func")

FuncParams(f) == SubSeq(f.kids, 1, Len(f.kids) - 1)

FuncBody(f) == f.kids[Len(f.kids)]

IsDef(s, n) == s.op = "Vardef" /\ s.name = n

IsUse(s, n) == s.op = "ExprStmt" /\ s.kids[1].op = "Ident" /\ s.kids[1].name = n

\* the walked statement `o` is a use resolved to the local at `offset`
ResolvedTo(o, offset) == o.kids[1].op = "Lvar" /\ o.kids[1].scope = Local(offset)

\* the positions before k, in the statement list ss, that define n
DefsBefore(ss, k, n) == {i \in 1..(k - 1) : IsDef(ss[i], n)}

MaxOf(S) == CHOOSE i \in S : \A j \in S : j <= i

\* every compound statement below the node `i`, as <<its statements, their walk>>
RECURSIVE BlockPairs(_, _)
BlockPairs(i, o) ==
  IF i.op # "CompStmt" THEN {}
  ELSE {<<i.kids, o.kids>>}
       \cup UNION {BlockPairs(i.kids[j], o.kids[j]) : j \in 1..Len(i.kids)}

\* The shadowing rule in the statement list ci (walked to co) of a compound
\* statement; pouts are the walked parameters when it is a function's body.
Shadowing(ci, co, pouts) ==
  \A j \in 1..Len(ci) : ci[j].op = "CompStmt" =>
    LET bi == ci[j].kids
        bo == co[j].kids
    IN \A p \in 1..Len(bi) : \A n \in {"x"} : IsDef(bi[p], n) =>
         \* inside the block, after the definition: the inner variable
         /\ \A q \in (p + 1)..Len(bi) :
              (IsUse(bi[q], n) /\ DefsBefore(bi, q, n) \cap (p + 1)..Len(bi) = {})
                => ResolvedTo(bo[q], bo[p].scope.offset)
         \* after the block: the variable the enclosing scope binds
         /\ \A k \in (j + 1)..Len(ci) : IsUse(ci[k], n) =>
              LET ds == DefsBefore(ci, k, n)
                  ps == {i \in 1..Len(pouts) : IsDef(pouts[i], n)}
              IN IF ds # {} THEN ResolvedTo(co[k], co[MaxOf(ds)].scope.offset)
                 ELSE ps # {} => ResolvedTo(co[k], pouts[MaxOf(ps)].scope.offset)
         \* after the block: what the name resolved to before the block
         /\ \A i \in 1..(j - 1) : \A k \in (j + 1)..Len(ci) :
              (IsUse(ci[i], n) /\ IsUse(ci[k], n) /\ DefsBefore(ci, k, n) \cap i..k = {})
                => co[k] = co[i]

\* C1: a local defined in a compound statement shadows the variable of the same
\* name of an enclosing scope: a use inside the compound statement after the
\* definition resolves to the inner variable's offset, and a use after the
\* compound statement resolves to the enclosing scope's variable again.
C1_InnerScopeShadowing ==
  \A k \in 1..Len(new_nodes) :
    LET fi == FuncsIn[k]
        fo == new_nodes[k]
    IN /\ Shadowing(FuncBody(fi).kids, FuncBody(fo).kids, FuncParams(fo))
       /\ \A pair \in UNION {BlockPairs(FuncBody(fi).kids[j], FuncBody(fo).kids[j]) :
                               j \in 1..Len(FuncBody(fi).kids)} :
            Shadowing(pair[1], pair[2], <<>>)

\* C1's case: `int x; { int *x; x; } x;` has been walked
C1_Witness ==
  \E k \in 1..Len(new_nodes) :
    /\ FuncBody(FuncsIn[k]).kids =
         <<DefInt("x"), Block(<<DefPtr("x"), Use("x")>>), Use("x")>>
    /\ ResolvedTo(FuncBody(new_nodes[k]).kids[2].kids[2], 16)
    /\ ResolvedTo(FuncBody(new_nodes[k]).kids[3], 4)

RECURSIVE NamesOf(_, _)
\* the names carried by the nodes of tag op in the trees ns
NamesOf(ns, op) ==
  IF ns = <<>> THEN {}
  ELSE (IF Head(ns).op = op THEN {Head(ns).name} ELSE {})
       \cup NamesOf(Head(ns).kids, op) \cup NamesOf(Tail(ns), op)

\* the position in `nodes` of the k-th function
FuncPos(k) ==
  CHOOSE i \in 1..Len(nodes) :
    nodes[i].op = "Func" /\ Cardinality({j \in 1..i : nodes[j].op = "Func"}) = k

\* C2: a function that has been walked without a panic uses only names that are
\* globals defined earlier in the unit or its own parameters and locals; a name
\* bound only in an earlier function is undefined.
C2_FreshScopePerFunction ==
  \A k \in 1..Len(new_nodes) :
    NamesOf(<<FuncsIn[k]>>, "Ident")
      \subseteq NamesOf(<<FuncsIn[k]>>, "Vardef")
                \cup {nodes[i].name : i \in {j \in 1..(FuncPos(k) - 1) : IsGlobalDef(nodes[j])}}

RECURSIVE VardefsOf(_)
\* the Vardef nodes of the trees ns, in walk order
VardefsOf(ns) ==
  IF ns = <<>> THEN <<>>
  ELSE (IF Head(ns).op = "Vardef" THEN <<Head(ns)>> ELSE <<>>)
       \o VardefsOf(Head(ns).kids) \o VardefsOf(Tail(ns))

\* the least multiple of align that is at least x
AlignedUp(x, align) == CHOOSE m \in x..(x + align - 1) : m % align = 0

\* C3: in every walked function, wherever it stands in the unit, the cursor
\* starts at 0, each local definition (parameters first) gets the offset
\* AlignedUp(cursor, its alignment) + its size, which is the new cursor, and the
\* function's stacksize is the cursor after the last definition.
C3_StackFrameLayout ==
  \A k \in 1..Len(new_nodes) :
    LET ds == VardefsOf(new_nodes[k].kids)
        cursor(i) == IF i = 0 THEN 0 ELSE ds[i].scope.offset
    IN /\ \A i \in 1..Len(ds) :
            ds[i].scope = Local(AlignedUp(cursor(i - 1), ds[i].ty.align) + ds[i].ty.size)
       /\ new_nodes[k].val = cursor(Len(ds))

\* C3's case: a second function `int x; int *x;` laid out at 4 and 16
C3_Witness ==
  /\ Len(new_nodes) = 2
  /\ new_nodes[1].val > 0
  /\ LET ds == VardefsOf(new_nodes[2].kids) IN
     /\ Len(ds) = 2
     /\ ds[1].scope = Local(4)
     /\ ds[2].scope = Local(16)
  /\ new_nodes[2].val = 16

(***************************************************************************)
(* gen_ir.rs: the IR.  An IR is [op, lhs, rhs] with -1 for a None operand; *)
(* a Call also carries the callee's name, nargs and the argument registers.*)
(***************************************************************************)
MkIR(op, lhs, rhs) ==
  [op |-> op, lhs |-> lhs, rhs |-> rhs, name |-> "", nargs |-> 0, args |-> <<>>]

MkCall(name, nargs, args, lhs) ==
  [op |-> "Call", lhs |-> lhs, rhs |-> -1, name |-> name, nargs |-> nargs, args |-> args]

\* the length of IROp::Call's [usize; 6]
CallArgSlots == 6

\* IRInfo::from(&IROp).ty
IRTypeOf(op) ==
  CASE op \in {"Add", "Sub", "Mul", "Div", "LT", "Mov", "Load32", "Load64",
               "Store32", "Store64"} -> "RegReg"
    [] op \in {"Imm", "SubImm"} -> "RegImm"
    [] op \in {"Kill", "Return"} -> "Reg"
    [] op \in {"Store32Arg", "Store64Arg"} -> "ImmImm"
    [] op = "Unless" -> "RegLabel"
    [] op = "Jmp" -> "Jmp"
    [] op = "Label" -> "Label"
    [] op = "Call" -> "Call"
    [] OTHER -> "Noarg"

\* sema::size_of
size_of(ty) == ty.size

(***************************************************************************)
(* The generator's statics while one function is lowered:                  *)
(* g = [NREG, NLABEL, CODE, err].  A panic sets err, and a panicked g      *)
(* takes no further effect.  gen_expr and gen_lval return [r, g]: the      *)
(* register of the result and the statics they leave.  An operator named   *)
(* f_after_x is the rest of f once x has been lowered.                     *)
(***************************************************************************)
GenPanic(g, msg) == IF g.err # "" THEN g ELSE [g EXCEPT !.err = msg]

add(g, ir) == IF g.err # "" THEN g ELSE [g EXCEPT !.CODE = Append(@, ir)]

\* consecutive calls of add
adds(g, irs) == IF g.err # "" THEN g ELSE [g EXCEPT !.CODE = @ \o irs]

kill(r) == MkIR("Kill", r, -1)

label(x) == MkIR("Label", x, -1)

\* `let r = Some(*NREG); *NREG += 1;`
bump_nreg(g) == IF g.err # "" THEN g ELSE [g EXCEPT !.NREG = @ + 1]

\* `let x = Some(*NLABEL); *NLABEL += 1;`
bump_nlabel(g) == IF g.err # "" THEN g ELSE [g EXCEPT !.NLABEL = @ + 1]

\* IROp::from(TokenType): "" when it panics
IROpFrom(tok) ==
  CASE tok = "+" -> "Add"
    [] tok = "-" -> "Sub"
    [] tok = "*" -> "Mul"
    [] tok = "/" -> "Div"
    [] tok \in {"<", ">"} -> "LT"
    [] OTHER -> ""

IsPtr(ty) == ty.ty = "Ptr"

LoadOp(ty) == IF IsPtr(ty) THEN "Load64" ELSE "Load32"

StoreOp(ty) == IF IsPtr(ty) THEN "Store64" ELSE "Store32"

\* a mutant of PtrScale: the right operand is not scaled
PtrScaleNone(g, rhs, ptr_of) == g

\* the Plus/Minus arm on a pointer: rhs (a register) times the pointee's size
PtrScale(g, rhs, ptr_of) ==
  adds(bump_nreg(g),
       <<MkIR("Imm", g.NREG, size_of(ptr_of)), MkIR("Mul", rhs, g.NREG), kill(g.NREG)>>)

RECURSIVE gen_expr(_, _)
RECURSIVE gen_lval(_, _)
RECURSIVE gen_args(_, _, _)

gen_lval(node, g) ==
  CASE node.op = "Deref" -> gen_expr(node.kids[1], g)
    [] node.op = "Lvar" ->
         [r |-> g.NREG,
          g |-> adds(bump_nreg(g),
                     <<MkIR("Mov", g.NREG, 0), MkIR("SubImm", g.NREG, node.scope.offset)>>)]
    [] OTHER -> [r |-> -1, g |-> GenPanic(g, "not an lvalue")]

gen_binop_after_rhs_kept(ty, r1, r2) ==
  [r |-> r1, g |-> adds(r2.g, <<MkIR(ty, r1, r2.r)>>)]

gen_binop_after_rhs(ty, r1, r2) ==
  [r |-> r1, g |-> adds(r2.g, <<MkIR(ty, r1, r2.r), kill(r2.r)>>)]

gen_binop_after_lhs(ty, rhs, r1) == gen_binop_after_rhs(ty, r1.r, gen_expr(rhs, r1.g))

gen_binop(ty, lhs, rhs, g) == gen_binop_after_lhs(ty, rhs, gen_expr(lhs, g))

\* a mutant of Logand_after_rhs: the value of the right operand is the result
Logand_after_rhs_raw(x, r1, r2) ==
  [r |-> r1,
   g |-> adds(r2.g, <<MkIR("Mov", r1, r2.r), kill(r2.r), MkIR("Unless", r1, x), label(x)>>)]

Logand_after_rhs(x, r1, r2) ==
  [r |-> r1,
   g |-> adds(r2.g, <<MkIR("Mov", r1, r2.r), kill(r2.r), MkIR("Unless", r1, x),
                      MkIR("Imm", r1, 1), label(x)>>)]

Logand_after_lhs(rhs, x, r1) ==
  Logand_after_rhs(x, r1.r, gen_expr(rhs, add(r1.g, MkIR("Unless", r1.r, x))))

Logor_after_rhs(y, r1, r2) ==
  [r |-> r1,
   g |-> adds(r2.g, <<MkIR("Mov", r1, r2.r), kill(r2.r), MkIR("Unless", r1, y),
                      MkIR("Imm", r1, 1), label(y)>>)]

Logor_after_lhs(rhs, x, y, r1) ==
  Logor_after_rhs(y, r1.r,
    gen_expr(rhs, adds(r1.g, <<MkIR("Unless", r1.r, x), MkIR("Imm", r1.r, 1),
                               MkIR("Jmp", y, -1), label(x)>>)))

\* the Lvar and Deref arms once the address is in r
Load_after(op, r) == [r |-> r.r, g |-> add(r.g, MkIR(op, r.r, r.r))]

\* `args_ir[i] = gen_expr(...)`: the store into the [usize; 6]
gen_args_store(rest, args_ir, r) ==
  IF Len(args_ir) >= CallArgSlots
  THEN [rs |-> args_ir, g |-> GenPanic(r.g, "index out of bounds")]
  ELSE gen_args(rest, r.g, Append(args_ir, r.r))

\* the Call arm's first loop; args_ir holds the slots written so far
gen_args(args, g, args_ir) ==
  IF args = <<>> THEN [rs |-> args_ir, g |-> g]
  ELSE gen_args_store(Tail(args), args_ir, gen_expr(Head(args), g))

Call_after_args(name, nargs, as) ==
  [r |-> as.g.NREG,
   g |-> adds(bump_nreg(as.g),
              <<MkCall(name, nargs, as.rs, as.g.NREG)>>
              \o [i \in 1..Len(as.rs) |-> kill(as.rs[i])])]

Equal_after_lhs(op, rhs, lhs) ==
  [r |-> lhs.r, g |-> adds(lhs.g, <<MkIR(op, lhs.r, rhs), kill(rhs)>>)]

Equal_after_rhs(node, rhs) ==
  Equal_after_lhs(StoreOp(node.ty), rhs.r, gen_lval(node.kids[1], rhs.g))

PlusMinus_after_lhs(insn, rhs, lhs) ==
  [r |-> lhs.r, g |-> adds(lhs.g, <<MkIR(insn, lhs.r, rhs), kill(rhs)>>)]

PlusMinus_after_rhs(insn, lhs, rhs) ==
  PlusMinus_after_lhs(insn, rhs.r, gen_expr(lhs, PtrScale(rhs.g, rhs.r, lhs.ty.of[1])))

gen_expr(node, g) ==
  LET op == node.op IN
  CASE op = "Num" ->
         [r |-> g.NREG, g |-> add(bump_nreg(g), MkIR("Imm", g.NREG, node.val))]
    [] op = "Logand" ->
         Logand_after_lhs(node.kids[2], g.NLABEL, gen_expr(node.kids[1], bump_nlabel(g)))
    [] op = "Logor" ->
         Logor_after_lhs(node.kids[2], g.NLABEL, bump_nlabel(g).NLABEL,
                         gen_expr(node.kids[1], bump_nlabel(bump_nlabel(g))))
    [] op = "Lvar" -> Load_after(LoadOp(node.ty), gen_lval(node, g))
    [] op = "Call" ->
         Call_after_args(node.name, Len(node.kids), gen_args(node.kids, g, <<>>))
    [] op = "Addr" -> gen_lval(node.kids[1], g)
    [] op = "Deref" -> Load_after("Load64", gen_expr(node.kids[1], g))
    [] op = "BinOp" /\ node.name = "=" -> Equal_after_rhs(node, gen_expr(node.kids[2], g))
    [] op = "BinOp" /\ node.name \in {"+", "-"} ->
         IF IsPtr(node.kids[1].ty)
         THEN PlusMinus_after_rhs(IROpFrom(node.name), node.kids[1], gen_expr(node.kids[2], g))
         ELSE gen_binop(IROpFrom(node.name), node.kids[1], node.kids[2], g)
    [] op = "BinOp" /\ node.name \notin {"=", "+", "-"} ->
         IF IROpFrom(node.name) = "" THEN [r |-> -1, g |-> GenPanic(g, "cannot convert")]
         ELSE gen_binop(IROpFrom(node.name), node.kids[1], node.kids[2], g)
    [] OTHER -> [r |-> -1, g |-> GenPanic(g, "unreachable")]

RECURSIVE gen_stmt(_, _)
RECURSIVE gen_stmts(_, _)

\* `for n in stmts { gen_stmt(n); }`
gen_stmts(ns, g) == IF ns = <<>> THEN g ELSE gen_stmts(Tail(ns), gen_stmt(Head(ns), g))

Vardef_after_init(node, rhs) ==
  LET lhs == rhs.g.NREG IN
  adds(bump_nreg(rhs.g),
       <<MkIR("Mov", lhs, 0), MkIR("SubImm", lhs, node.scope.offset),
         MkIR(StoreOp(node.ty), lhs, rhs.r), kill(lhs), kill(rhs.r)>>)

\* the lowering of an if without else, once cond is in r
If_after_cond(then, x, r) ==
  add(gen_stmt(then, adds(r.g, <<MkIR("Unless", r.r, x), kill(r.r)>>)), label(x))

\* the If arm below `if let Some(els)`
gen_if(cond, then, g) == If_after_cond(then, g.NLABEL, gen_expr(cond, bump_nlabel(g)))

\* the body of `if let Some(els)`, once cond is in r
IfElse_after_cond(then, els, x, y, r) ==
  add(gen_stmt(els,
        adds(gen_stmt(then, adds(r.g, <<MkIR("Unless", r.r, x), kill(r.r)>>)),
             <<MkIR("Jmp", y, -1), label(x)>>)),
      label(y))

For_after_inc(x, y, r3) == adds(r3.g, <<kill(r3.r), MkIR("Jmp", x, -1), label(y)>>)

For_after_cond(body, inc, x, y, r2) ==
  For_after_inc(x, y,
    gen_expr(inc, gen_stmt(body, adds(r2.g, <<MkIR("Unless", r2.r, y), kill(r2.r)>>))))

Return_after(r) == adds(r.g, <<MkIR("Return", r.r, -1), kill(r.r)>>)

ExprStmt_after(r) == add(r.g, kill(r.r))

gen_stmt(node, g) ==
  LET op == node.op IN
  CASE op = "Vardef" ->
         IF node.kids = <<>> THEN g
         ELSE Vardef_after_init(node, gen_expr(node.kids[1], g))
    [] op = "If" ->
         IF Len(node.kids) = 3
         \* no return ends `if let Some(els)`: control falls into the lowering
         \* of an if without else
         THEN gen_if(node.kids[1], node.kids[2],
                IfElse_after_cond(node.kids[2], node.kids[3], g.NLABEL, bump_nlabel(g).NLABEL,
                  gen_expr(node.kids[1], bump_nlabel(bump_nlabel(g)))))
         ELSE gen_if(node.kids[1], node.kids[2], g)
    [] op = "For" ->
         For_after_cond(node.kids[4], node.kids[3], g.NLABEL, bump_nlabel(g).NLABEL,
           gen_expr(node.kids[2],
             add(gen_stmt(node.kids[1], bump_nlabel(bump_nlabel(g))), label(g.NLABEL))))
    [] op = "Return" -> Return_after(gen_expr(node.kids[1], g))
    [] op = "ExprStmt" -> ExprStmt_after(gen_expr(node.kids[1], g))
    [] op = "CompStmt" -> gen_stmts(node.kids, g)
    [] OTHER -> GenPanic(g, "unknown node")

\* gen_ir's prologue: one store-argument per parameter, in order
RECURSIVE gen_params(_, _, _)
gen_params(args, i, g) ==
  IF i >= Len(args) THEN g
  ELSE gen_params(args, i + 1,
         add(g, MkIR(IF IsPtr(args[i + 1].ty) THEN "Store64Arg" ELSE "Store32Arg",
                     args[i + 1].scope.offset, i)))

\* a mutant of FuncFirstReg: the register counter goes on from function to function
FuncFirstRegKeep(nreg) == nreg

\* the register counter a function's lowering starts from
FuncFirstReg(nreg) == 1

\* a mutant of FuncFirstLabel: the label counter restarts with every function
FuncFirstLabelReset(nlabel) == 0

\* the label counter a function's lowering starts from: gen_ir leaves it alone
FuncFirstLabel(nlabel) == nlabel

\* one function's lowering, from the statics it finds
gen_func(node, nreg, nlabel) ==
  gen_stmt(node.kids[Len(node.kids)],
    gen_params(SubSeq(node.kids, 1, Len(node.kids) - 1), 0,
      [NREG |-> FuncFirstReg(nreg), NLABEL |-> FuncFirstLabel(nlabel),
       CODE |-> <<>>, err |-> ""]))

MkFunction(name, ir, stacksize) == [name |-> name, ir |-> ir, stacksize |-> stacksize]

(***************************************************************************)
(* The typed units handed to gen_ir(): every sequence of functions of at   *)
(* most MaxGenNodes nodes over the locals `int a` (offset 4), `int *p`     *)
(* (offset 16), `int v` (offset 20) and `int *q` (offset 32), typed as     *)
(* sema types them.  The units are enumerated as token strings in prefix   *)
(* form and parsed into the typed AST.                                     *)
(***************************************************************************)
PtrInt == PtrTo(IntTy)

TypedNode(op, name, val, ty, kids) == MkNode(op, name, val, ty, kids, NoScope)

LvarNode(ty, offset) == MkNode("Lvar", "", 0, ty, <<>>, Local(offset))

\* the strings of a binary operator over left and right operand tables
BinStrs(ops, ls, rs, w) ==
  UNION { {<<o>> \o l \o r : o \in ops, l \in ls[i], r \in rs[w - 1 - i]} :
          i \in 1..(w - 2) }

\* Expression strings by type and size: t.i[w], t.pi[w], t.pp[w] hold the
\* strings of w nodes of type int, int* and int**.
RECURSIVE BuildExprs(_, _)
BuildExprs(t, w) ==
  IF w >= MaxGenNodes THEN t
  ELSE LET val == [k \in 1..(w - 1) |-> t.i[k] \cup t.pi[k]]
           i == IF w = 1 THEN {<<"1">>, <<"a">>, <<"f()">>}
                ELSE {<<"deref">> \o e : e \in t.pi[w - 1]}
                     \cup {<<"f(_)">> \o e : e \in t.i[w - 1]}
                     \cup BinStrs({"f(_,_)", "+", "-", "*", "<"}, t.i, t.i, w)
                     \cup BinStrs({"&&", "||"}, val, val, w)
                     \cup (IF w = 2 THEN {} ELSE {<<"=", "a">> \o e : e \in t.i[w - 2]})
                     \cup (IF w < 5 THEN {}
                           ELSE {<<"=", "deref", "p">> \o e : e \in t.i[w - 3]})
           pi == IF w = 1 THEN {<<"p">>}
                 ELSE (IF w = 2 THEN {<<"&", "a">>} ELSE {})
                      \cup {<<"deref">> \o e : e \in t.pp[w - 1]}
                      \cup BinStrs({"+", "-"}, t.pi, t.i, w)
                      \cup (IF w = 2 THEN {} ELSE {<<"=", "p">> \o e : e \in t.pi[w - 2]})
           pp == IF w = 1 THEN {}
                 ELSE (IF w = 2 THEN {<<"&", "p">>} ELSE {})
                      \cup BinStrs({"+", "-"}, t.pp, t.i, w)
       IN BuildExprs([i |-> Append(t.i, i), pi |-> Append(t.pi, pi),
                      pp |-> Append(t.pp, pp)], w + 1)

GenExprs == BuildExprs([i |-> <<>>, pi |-> <<>>, pp |-> <<>>], 1)

\* the strings of w nodes of any type
AnyExprs == [w \in 1..(MaxGenNodes - 1) |-> GenExprs.i[w] \cup GenExprs.pi[w] \cup GenExprs.pp[w]]

\* Statement strings: t.s[w] holds the statements of w nodes, t.ss[w + 1] the
\* statement sequences of w nodes.
RECURSIVE BuildStmts(_, _)
BuildStmts(t, w) ==
  IF w >= MaxGenNodes THEN t
  ELSE LET s == {<<"{">> \o b \o <<"}">> : b \in t.ss[w]}
                \cup (IF w = 1 THEN {}
                      ELSE {<<"expr">> \o e : e \in AnyExprs[w - 1]}
                           \cup {<<"return">> \o e : e \in GenExprs.i[w - 1]}
                           \cup {<<"int v=">> \o e : e \in GenExprs.i[w - 1]}
                           \cup {<<"int *q=">> \o e : e \in GenExprs.pi[w - 1]})
                \cup UNION { {<<"if">> \o e \o a : e \in GenExprs.i[k], a \in t.s[w - 1 - k]} :
                             k \in 1..(w - 2) }
                \cup UNION { UNION { {<<"ifelse">> \o e \o a \o b :
                                        e \in GenExprs.i[k], a \in t.s[j],
                                        b \in t.s[w - 1 - k - j]} :
                                     j \in 1..(w - 2 - k) } : k \in 1..(w - 3) }
                \cup UNION { UNION { UNION { {<<"for">> \o a \o c \o e \o b :
                                        a \in t.s[k], c \in GenExprs.i[j], e \in AnyExprs[m],
                                        b \in t.s[w - 1 - k - j - m]} :
                                     m \in 1..(w - 2 - k - j) } :
                                     j \in 1..(w - 3 - k) } : k \in 1..(w - 4) }
           s1 == Append(t.s, s)
           ss == UNION { {a \o rest : a \in s1[k], rest \in t.ss[w - k + 1]} : k \in 1..w }
       IN BuildStmts([s |-> s1, ss |-> Append(t.ss, ss)], w + 1)

GenStmts == BuildStmts([s |-> <<>>, ss |-> <<{<<>>}>>], 1)

\* GenItemsOfSize[w]: the top-level items of w nodes: something that is no
\* function, a function of no parameter, a function of the parameters a and p
GenItemsOfSize ==
  [w \in 1..MaxGenNodes |->
     (IF w = 1 THEN {<<";">>} ELSE {})
     \cup {<<"f(){">> \o b \o <<"}">> : b \in GenStmts.ss[w]}
     \cup (IF w < 3 THEN {}
           ELSE {<<"f(int a,int *p){">> \o b \o <<"}">> : b \in GenStmts.ss[w - 2]})]

\* the kinds of the parts that follow a token: "e" an expression, "s" a statement
PartsOf(tok) ==
  CASE tok \in {"0", "1", "2", "a", "p", "f()"} -> <<>>
    [] tok \in {"f(_)", "deref", "&", "expr", "return", "int v=", "int *q="} -> <<"e">>
    [] tok = "if" -> <<"e", "s">>
    [] tok = "ifelse" -> <<"e", "s", "s">>
    [] tok = "for" -> <<"s", "e", "e", "s">>
    [] OTHER -> <<"e", "e">>

\* the node of a token and the nodes of its parts, typed as sema types it
Compose(tok, ps) ==
  CASE tok = "1" -> TypedNode("Num", "", 1, IntTy, <<>>)
    [] tok = "0" -> TypedNode("Num", "", 0, IntTy, <<>>)
    [] tok = "2" -> TypedNode("Num", "", 2, IntTy, <<>>)
    [] tok = "a" -> LvarNode(IntTy, 4)
    [] tok = "p" -> LvarNode(PtrInt, 16)
    [] tok \in {"f()", "f(_)", "f(_,_)"} -> TypedNode("Call", "f", 0, IntTy, ps)
    [] tok = "deref" -> TypedNode("Deref", "", 0, ps[1].ty.of[1], ps)
    [] tok = "&" -> TypedNode("Addr", "", 0, PtrTo(ps[1].ty), ps)
    [] tok = "&&" -> TypedNode("Logand", "", 0, IntTy, ps)
    [] tok = "||" -> TypedNode("Logor", "", 0, IntTy, ps)
    [] tok = "expr" -> NewNode("ExprStmt", "", ps)
    [] tok = "return" -> NewNode("Return", "", ps)
    [] tok = "int v=" -> MkNode("Vardef", "v", 0, IntTy, ps, Local(20))
    [] tok = "int *q=" -> MkNode("Vardef", "q", 0, PtrInt, ps, Local(32))
    [] tok \in {"if", "ifelse"} -> NewNode("If", "", ps)
    [] tok = "for" -> NewNode("For", "", ps)
    [] OTHER -> TypedNode("BinOp", tok, 0, ps[1].ty, ps)

RECURSIVE ParseParts(_, _, _)
RECURSIVE ParseGenStmts(_, _)

ParsePartsNext(kinds, acc, part) == ParseParts(kinds, part.rest, acc \o part.nodes)

ParseGenStmtsNext(acc, part) == ParseGenStmts(part.rest, acc \o part.nodes)

ParseBlock(blk) == [nodes |-> <<Block(blk.nodes)>>, rest |-> Tail(blk.rest)]

ParseToken(tok, ps) == [nodes |-> <<Compose(tok, ps.nodes)>>, rest |-> ps.rest]

\* the expression or statement at the head of toks
ParseOne(toks) ==
  IF Head(toks) = "{" THEN ParseBlock(ParseGenStmts(Tail(toks), <<>>))
  ELSE ParseToken(Head(toks), ParseParts(PartsOf(Head(toks)), Tail(toks), <<>>))

\* the parts of the given kinds at the head of toks
ParseParts(kinds, toks, acc) ==
  IF kinds = <<>> THEN [nodes |-> acc, rest |-> toks]
  ELSE ParsePartsNext(Tail(kinds), acc, ParseOne(toks))

\* the statements at the head of toks, up to the "}" that closes their block
ParseGenStmts(toks, acc) ==
  IF toks = <<>> \/ Head(toks) = "}" THEN [nodes |-> acc, rest |-> toks]
  ELSE ParseGenStmtsNext(acc, ParseOne(toks))

ParseGenItem(toks) ==
  CASE toks = <<";">> -> NewNode("Null", "", <<>>)
    [] Head(toks) = "f(){" ->
         MkNode("Func", "f", 32, IntTy,
                <<Block(ParseGenStmts(Tail(toks), <<>>).nodes)>>, NoScope)
    [] Head(toks) = "f(int a,int *p){" ->
         MkNode("Func", "f", 32, IntTy,
                <<MkNode("Vardef", "a", 0, IntTy, <<>>, Local(4)),
                  MkNode("Vardef", "p", 0, PtrInt, <<>>, Local(16)),
                  Block(ParseGenStmts(Tail(toks), <<>>).nodes)>>, NoScope)

\* the nodes of the items consumed: an item's tokens less its closing braces
TokCount(toks) == Cardinality({i \in 1..Len(toks) : toks[i] # "}"})
                  + Cardinality({i \in 1..Len(toks) : toks[i] = "f(int a,int *p){"}) * 2

(***************************************************************************)
(* gen_ir.rs: gen_ir().  gen_nodes is the part of the argument the loop    *)
(* has consumed (as token strings), v the functions lowered so far.        *)
(***************************************************************************)
GenIdle ==
  /\ NREG = 1
  /\ NLABEL = 0
  /\ CODE = <<>>
  /\ gen_nodes = <<>>
  /\ v = <<>>
  /\ gen_pc = "idle"

GenInit ==
  /\ NREG = 1
  /\ NLABEL = 0
  /\ CODE = <<>>
  /\ gen_nodes = <<>>
  /\ v = <<>>
  /\ gen_pc = "loop"

\* one iteration of the loop on a function
GenFunc(toks) ==
  LET node == ParseGenItem(toks) IN
  /\ gen_pc = "loop"
  /\ node.op = "Func"
  /\ gen_nodes' = Append(gen_nodes, toks)
  /\ LET g == gen_func(node, NREG, NLABEL) IN
     /\ NREG' = g.NREG
     /\ NLABEL' = g.NLABEL
     /\ CODE' = g.CODE
     /\ IF g.err # ""
        THEN gen_pc' = "panic" /\ UNCHANGED v
        ELSE v' = Append(v, MkFunction(node.name, g.CODE, node.val)) /\ UNCHANGED gen_pc

\* one iteration of the loop on anything else
GenNotFunc(toks) ==
  /\ gen_pc = "loop"
  /\ ParseGenItem(toks).op # "Func"
  /\ gen_nodes' = Append(gen_nodes, toks)
  /\ gen_pc' = "panic"
  /\ UNCHANGED <<NREG, NLABEL, CODE, v>>

\* the loop ends: gen_ir returns v
GenReturn ==
  /\ gen_pc = "loop"
  /\ gen_pc' = "done"
  /\ UNCHANGED <<NREG, NLABEL, CODE, gen_nodes, v>>

RECURSIVE SumTokCount(_)
SumTokCount(items) ==
  IF items = <<>> THEN 0 ELSE TokCount(Head(items)) + SumTokCount(Tail(items))

NextGenItems == UNION {GenItemsOfSize[w] : w \in 1..(MaxGenNodes - SumTokCount(gen_nodes))}

(***************************************************************************)
(* gen_ir() on units of up to MaxFuncs small items: the empty function,    *)
(* a function of one statement that allocates labels or registers, a       *)
(* top-level item that is no function.                                     *)
(***************************************************************************)
UnitStmts ==
  {<<"expr", "1">>, <<"if", "1", "{", "}">>, <<"ifelse", "a", "{", "}", "{", "}">>,
   <<"for", "{", "}", "1", "1", "{", "}">>, <<"expr", "&&", "1", "a">>,
   <<"return", "||", "a", "1">>, <<"expr", "+", "p", "1">>, <<"int v=", "f(_)", "1">>}

UnitItems ==
  {<<";">>, <<"f(){", "}">>}
  \cup {<<"f(){">> \o s \o <<"}">> : s \in UnitStmts}
  \cup {<<"f(int a,int *p){">> \o s \o <<"}">> : s \in UnitStmts}

NextUnitItems == IF Len(gen_nodes) < MaxFuncs THEN UnitItems ELSE {}

(***************************************************************************)
(* Properties of gen_ir().  v[k] is the lowering of the k-th item consumed *)
(* (a panic ends the loop, so every item before a lowered one is a         *)
(* function that was lowered).                                             *)
(***************************************************************************)
GenAst(k) == ParseGenItem(gen_nodes[k])

\* the indices of ir whose instruction has one of ops, in increasing order
IdxOf(ir, ops) == SelectSeq([i \in 1..Len(ir) |-> i], LAMBDA i : ir[i].op \in ops)

RECURSIVE Lowerings(_)
RECURSIVE LoweringsOfAll(_)

LoweringsOfAll(ns) ==
  IF ns = <<>> THEN <<>> ELSE Lowerings(Head(ns)) \o LoweringsOfAll(Tail(ns))

\* The nodes below a node, one entry per lowering, in the order in which
\* their last instruction is emitted: a node comes after its operands; the
\* right operand of an assignment and of a pointer +/- comes first; the for
\* statement lowers its body before its increment; an if with else lowers
\* its condition and its then-branch a second time.
Lowerings(node) ==
  LET ks == node.kids IN
  CASE node.op = "BinOp" /\ (node.name = "=" \/ IsPtr(ks[1].ty)) ->
         Lowerings(ks[2]) \o Lowerings(ks[1]) \o <<node>>
    [] node.op = "For" -> LoweringsOfAll(<<ks[1], ks[2], ks[4], ks[3]>>) \o <<node>>
    [] node.op = "If" /\ Len(ks) = 3 ->
         LoweringsOfAll(ks) \o LoweringsOfAll(<<ks[1], ks[2]>>) \o <<node>>
    [] node.op = "Func" -> Lowerings(ks[Len(ks)])
    [] OTHER -> LoweringsOfAll(ks) \o <<node>>

PlusMinus(node) == node.op = "BinOp" /\ node.name \in {"+", "-"}

\* the register the instruction at j takes as its right operand was
\* multiplied, before j, by a register holding the immediate size
ScaledBefore(ir, j, size) ==
  \E i \in 2..(j - 1) :
    /\ ir[i].op = "Mul"
    /\ ir[i].lhs = ir[j].rhs
    /\ ir[i - 1].op = "Imm"
    /\ ir[i - 1].lhs = ir[i].rhs
    /\ ir[i - 1].rhs = size

\* C5: in every lowered function the ADD/SUB instructions are, in order, the
\* lowerings of the function's +/- nodes; the ADD/SUB of a node whose left
\* operand is a pointer takes a right operand that an earlier MUL multiplied
\* by an immediate equal to the pointee's size; and the function holds no
\* MUL beyond one for each such node and one for each `*` node, so that a +/-
\* whose left operand is no pointer emits none.
C5_PointerScaling ==
  \A k \in 1..Len(v) :
    LET ir == v[k].ir
        all == Lowerings(GenAst(k))
        pm == SelectSeq(all, PlusMinus)
        idx == IdxOf(ir, {"Add", "Sub"})
        scaled == {m \in 1..Len(pm) : IsPtr(pm[m].kids[1].ty)}
        times == {m \in 1..Len(all) : all[m].op = "BinOp" /\ all[m].name = "*"}
    IN /\ Len(idx) = Len(pm)
       /\ \A m \in 1..Len(pm) :
            /\ ir[idx[m]].op = (IF pm[m].name = "+" THEN "Add" ELSE "Sub")
            /\ IsPtr(pm[m].kids[1].ty) =>
                 ScaledBefore(ir, idx[m], pm[m].kids[1].ty.of[1].size)
       /\ Len(IdxOf(ir, {"Mul"})) = Cardinality(scaled) + Cardinality(times)

\* `int *p; p + 1;` is lowered: the literal 1 in r1 is multiplied by 4 (in r2)
\* before it is added to p (in r3)
C5_Witness ==
  \E k \in 1..Len(v) :
    /\ gen_nodes[k] = <<"f(){", "expr", "+", "p", "1", "}">>
    /\ SubSeq(v[k].ir, 1, 3) = <<MkIR("Imm", 1, 1), MkIR("Imm", 2, 4), MkIR("Mul", 1, 2)>>
    /\ v[k].ir[8] = MkIR("Add", 3, 1)

\* the register operands of an instruction, destination first
RegsOf(ir) ==
  CASE IRTypeOf(ir.op) = "RegReg" -> <<ir.lhs, ir.rhs>>
    [] IRTypeOf(ir.op) \in {"Reg", "RegImm", "RegLabel"} -> <<ir.lhs>>
    [] IRTypeOf(ir.op) = "Call" -> <<ir.lhs>> \o ir.args
    [] OTHER -> <<>>

RECURSIVE AllRegs(_)
AllRegs(ir) == IF ir = <<>> THEN <<>> ELSE RegsOf(Head(ir)) \o AllRegs(Tail(ir))

\* the registers other than r0 in the order of their first occurrence
FirstUses(ir) ==
  LET rs == AllRegs(ir)
      first == SelectSeq([i \in 1..Len(rs) |-> i],
                         LAMBDA i : rs[i] # 0 /\ \A j \in 1..(i - 1) : rs[j] # rs[i])
  IN [m \in 1..Len(first) |-> rs[first[m]]]

\* C6: in every lowered function, whatever its position in the unit, the
\* k-th register to occur has id k, r0 occurs only as the source of a MOV,
\* and the counter is left one past the registers of the last function.
C6_RegisterAllocation ==
  /\ \A k \in 1..Len(v) :
       LET ir == v[k].ir IN
       /\ FirstUses(ir) = [m \in 1..Len(FirstUses(ir)) |-> m]
       /\ \A i \in 1..Len(ir) :
            \A j \in 1..Len(RegsOf(ir[i])) :
              RegsOf(ir[i])[j] = 0 => ir[i].op = "Mov" /\ j = 2
  /\ gen_pc # "panic" /\ v # <<>> => NREG = Len(FirstUses(v[Len(v)].ir)) + 1

\* a function that allocates r1, r2, r3 is followed by one that allocates r1
C6_Witness ==
  /\ Len(v) = 2
  /\ FirstUses(v[1].ir) = <<1, 2, 3>>
  /\ FirstUses(v[2].ir) = <<1>>
  /\ v[2].ir[1] = MkIR("Imm", 1, 1)

\* the label definitions of the unit: <<function, instruction>>
LabelDefs ==
  UNION { {<<k, i>> : i \in {j \in 1..Len(v[k].ir) : v[k].ir[j].op = "Label"}} :
          k \in 1..Len(v) }

\* C7: no two label definitions of the unit carry the same id, and the
\* counter stands above every id handed out: it is never taken back.
C7_LabelsUnique ==
  /\ \A d1, d2 \in LabelDefs :
       v[d1[1]].ir[d1[2]].lhs = v[d2[1]].ir[d2[2]].lhs => d1 = d2
  /\ \A d \in LabelDefs : v[d[1]].ir[d[2]].lhs < NLABEL

\* three functions that define labels: .L0 in the first, .L1 to .L3 in the
\* second (an if with else), .L4 in the third
C7_Witness ==
  /\ Len(v) = 3
  /\ {v[1].ir[d[2]].lhs : d \in {e \in LabelDefs : e[1] = 1}} = {0}
  /\ {v[2].ir[d[2]].lhs : d \in {e \in LabelDefs : e[1] = 2}} = {1, 2, 3}
  /\ {v[3].ir[d[2]].lhs : d \in {e \in LabelDefs : e[1] = 3}} = {4}

(***************************************************************************)
(* Execution of the IR of one expression.  gen_ir.rs only emits the IR;    *)
(* its meaning is the one the specification gives the instructions: IMM    *)
(* loads an immediate, MOV copies a register, SUB_IMM subtracts an         *)
(* immediate, LOAD32 reads the word a register points to, UNLESS branches  *)
(* to a label when its register is zero, JMP branches, a label and KILL    *)
(* change no value.  r0 is the base pointer; the local `a` lives at        *)
(* offset 4 below it.                                                      *)
(***************************************************************************)
GenStart == [NREG |-> 1, NLABEL |-> 0, CODE |-> <<>>, err |-> ""]

\* the expressions executed: && and || over the literals 0 and 2, the local
\* a, and smaller such expressions, of at most MaxExecNodes nodes
RECURSIVE BuildLogicals(_, _)
BuildLogicals(t, w) ==
  IF w > MaxExecNodes THEN t
  ELSE BuildLogicals(
         Append(t, IF w = 1 THEN {<<"0">>, <<"2">>, <<"a">>}
                   ELSE BinStrs({"&&", "||"}, t, t, w)),
         w + 1)

Logicals == BuildLogicals(<<>>, 1)

ExecExprs == UNION {Logicals[w] : w \in 2..MaxExecNodes}

\* the values the local a may hold
AVals == 0..MaxVal

\* the index of the definition of label x
LabelAt(code, x) == CHOOSE i \in 1..Len(code) : code[i] = label(x)

ExecIdle ==
  /\ ex_toks = <<>>
  /\ ex_code = <<>>
  /\ ex_pc = 0
  /\ ex_regs = <<>>
  /\ ex_mem = <<>>
  /\ ex_seen = {}

\* an expression is lowered and loaded; the local a holds val
ExecStart(toks, val) ==
  /\ ex_pc = 0
  /\ ex_code = <<>>
  /\ ex_toks' = toks
  /\ ex_code' = gen_expr(ParseOne(toks).nodes[1], GenStart).g.CODE
  /\ ex_pc' = 1
  /\ ex_regs' = [r \in {0} |-> 0]
  /\ ex_mem' = [addr \in {0 - 4} |-> val]
  /\ ex_seen' = {}

\* the instruction about to run
Cur == ex_code[ex_pc]

Running(op) == ex_pc \in 1..Len(ex_code) /\ Cur.op = op

\* the registers after r is written
SetReg(r, val) == [x \in DOMAIN ex_regs \cup {r} |-> IF x = r THEN val ELSE ex_regs[x]]

\* control goes to the instruction at pc
Goto(pc) ==
  /\ ex_pc' = pc
  /\ ex_seen' = ex_seen \cup {ex_pc}
  /\ UNCHANGED <<ex_toks, ex_code, ex_mem>>

ExecImm == Running("Imm") /\ ex_regs' = SetReg(Cur.lhs, Cur.rhs) /\ Goto(ex_pc + 1)

ExecMov == Running("Mov") /\ ex_regs' = SetReg(Cur.lhs, ex_regs[Cur.rhs]) /\ Goto(ex_pc + 1)

ExecSubImm ==
  Running("SubImm") /\ ex_regs' = SetReg(Cur.lhs, ex_regs[Cur.lhs] - Cur.rhs) /\ Goto(ex_pc + 1)

ExecLoad32 ==
  Running("Load32") /\ ex_regs' = SetReg(Cur.lhs, ex_mem[ex_regs[Cur.rhs]]) /\ Goto(ex_pc + 1)

ExecUnless ==
  /\ Running("Unless")
  /\ UNCHANGED ex_regs
  /\ Goto(IF ex_regs[Cur.lhs] = 0 THEN LabelAt(ex_code, Cur.rhs) ELSE ex_pc + 1)

ExecJmp == Running("Jmp") /\ UNCHANGED ex_regs /\ Goto(LabelAt(ex_code, Cur.lhs))

ExecLabel == Running("Label") /\ UNCHANGED ex_regs /\ Goto(ex_pc + 1)

ExecKill == Running("Kill") /\ UNCHANGED ex_regs /\ Goto(ex_pc + 1)



(***************************************************************************)
(* Short-circuit evaluation (C4).                                          *)
(***************************************************************************)
\* the expression that runs and the value its local a holds
ExecAst == ParseOne(ex_toks).nodes[1]

AVal == ex_mem[0 - 4]

\* the value C gives an expression of literals, a, && and ||
RECURSIVE Eval(_, _)
Eval(node, val) ==
  CASE node.op = "Num" -> node.val
    [] node.op = "Lvar" -> val
    [] node.op = "Logand" ->
         IF Eval(node.kids[1], val) # 0 /\ Eval(node.kids[2], val) # 0 THEN 1 ELSE 0
    [] node.op = "Logor" ->
         IF Eval(node.kids[1], val) # 0 \/ Eval(node.kids[2], val) # 0 THEN 1 ELSE 0

\* the generator state in which the right operand of node is lowered, given
\* the lowering r1 of its left operand in state g
RhsStart(node, g, r1) ==
  IF node.op = "Logand" THEN add(r1.g, MkIR("Unless", r1.r, g.NLABEL))
  ELSE adds(r1.g, <<MkIR("Unless", r1.r, g.NLABEL), MkIR("Imm", r1.r, 1),
                    MkIR("Jmp", g.NLABEL + 1, -1), label(g.NLABEL)>>)

\* where the code of every && and || of node, lowered in state g, sits:
\* aFrom and bFrom the first instructions of its operands, land its landing
\* label, r its result register
RECURSIVE Spans(_, _)
SpansOf(node, g, g1, r1) ==
  {[node |-> node, aFrom |-> Len(g.CODE) + 1, bFrom |-> Len(RhsStart(node, g, r1).CODE) + 1,
    land |-> Len(gen_expr(node, g).g.CODE), r |-> r1.r]}
    \cup Spans(node.kids[1], g1) \cup Spans(node.kids[2], RhsStart(node, g, r1))

Spans(node, g) ==
  CASE node.op = "Logand" ->
         SpansOf(node, g, bump_nlabel(g), gen_expr(node.kids[1], bump_nlabel(g)))
    [] node.op = "Logor" ->
         SpansOf(node, g, bump_nlabel(bump_nlabel(g)),
                 gen_expr(node.kids[1], bump_nlabel(bump_nlabel(g))))
    [] OTHER -> {}

\* the right operand of the && or || at span s is to be evaluated
TakesRhs(s) ==
  IF s.node.op = "Logand" THEN Eval(s.node.kids[1], AVal) # 0
  ELSE Eval(s.node.kids[1], AVal) = 0

\* C4: for every && and || of the expression that runs, the code of the right
\* operand is executed only if the node was entered and its left operand was
\* non-zero (for &&) or zero (for ||); and when control stands at the landing
\* label the node was entered, the right operand was executed if the left
\* operand called for it, and the result register holds 1 if the logical
\* value is true and 0 otherwise.
C4_ShortCircuit ==
  ex_pc > 0 =>
    \A s \in Spans(ExecAst, GenStart) :
      /\ s.bFrom \in ex_seen => (s.aFrom \in ex_seen /\ TakesRhs(s))
      /\ ex_pc = s.land =>
           /\ s.aFrom \in ex_seen
           /\ TakesRhs(s) => s.bFrom \in ex_seen
           /\ ex_regs[s.r] = Eval(s.node, AVal)
           /\ ex_regs[s.r] \in {0, 1}

\* `0 || (a && 2)` with a = 2 stands at its landing label: both right operands
\* were executed and the value 2 has become the result 1
C4_Witness ==
  /\ ex_toks = <<"||", "0", "&&", "a", "2">>
  /\ AVal = 2
  /\ ex_pc = Len(ex_code)
  /\ ex_code[ex_pc].op = "Label"
  /\ ex_regs[1] = 1
  /\ \A s \in Spans(ExecAst, GenStart) : s.bFrom \in ex_seen

(***************************************************************************)
(* preprocess.rs: tokens.  A token is [ty, s, val, stringize, line]: s the *)
(* text of an identifier, string or punctuator, val the value of a number  *)
(* or the index of a parameter, line the source line of its position.  A   *)
(* token made by Token::new(ty, 0, ..) sits at position 0: line 1.         *)
(***************************************************************************)
MkToken(ty, s, val, line) == [ty |-> ty, s |-> s, val |-> val, stringize |-> FALSE, line |-> line]

\* Token::new(ty, 0, filename, buf)
NewToken(ty, s, val) == MkToken(ty, s, val, 1)

\* Token::default(): what Context::next leaves in the slot it takes
DefaultToken == MkToken("Default", "", 0, 1)

NumLits == {"1", "2", "3"}

NumVal(s) == CASE s = "1" -> 1 [] s = "2" -> 2 [] s = "3" -> 3

StrLits == {"\"h\"", "\"g\""}

\* the text a string literal holds
StrVal(s) == CASE s = "\"h\"" -> "h" [] s = "\"g\"" -> "g"

\* the token the scanner makes of one lexeme on a line
Scan(s, line) ==
  CASE s = "(" -> MkToken("LeftParen", s, 0, line)
    [] s = ")" -> MkToken("RightParen", s, 0, line)
    [] s = "," -> MkToken("Comma", s, 0, line)
    [] s = "#" -> MkToken("HashMark", s, 0, line)
    [] s = "NL" -> MkToken("NewLine", s, 0, line)
    [] s \in {"+", "*"} -> MkToken("Punct", s, 0, line)
    [] s \in NumLits -> MkToken("Num", "", NumVal(s), line)
    [] s \in StrLits -> MkToken("Str", StrVal(s), 0, line)
    [] OTHER -> MkToken("Ident", s, 0, line)

\* the tokens of a source text given as its lexemes, "NL" ending a line
Lex(src) ==
  [i \in 1..Len(src) |->
     Scan(src[i], 1 + Cardinality({j \in 1..(i - 1) : src[j] = "NL"}))]

\* Token::tokstr: the literal text of a token
tokstr(t) == IF t.ty = "Num" THEN ToString(t.val) ELSE t.s

(***************************************************************************)
(* preprocess.rs: Context and Preprocess.  A frame is [input, output,      *)
(* pos]; pp_stack holds the chain of frames, the active one last.  The     *)
(* operators below work on c = [input, output, pos, err], the active frame *)
(* and the panic, if any, that has ended the run.                          *)
(***************************************************************************)
Preprocess(input) == [input |-> input, output |-> <<>>, pos |-> 0]

CtxOf(frame) == [input |-> frame.input, output |-> frame.output, pos |-> frame.pos, err |-> ""]

FrameOf(c) == [input |-> c.input, output |-> c.output, pos |-> c.pos]

PPPanic(c, msg) == IF c.err # "" THEN c ELSE [c EXCEPT !.err = msg]

eof(c) == c.pos = Len(c.input)

\* Context::peek: the token at the cursor; DefaultToken stands for None
peek(c) == IF c.pos < Len(c.input) THEN c.input[c.pos + 1] ELSE DefaultToken

\* Context::next where it is not at the end: the slot is emptied, the cursor moves
next(c) ==
  IF c.err # "" \/ eof(c) THEN c
  ELSE [c EXCEPT !.input[c.pos + 1] = DefaultToken, !.pos = @ + 1]

\* Context::consume succeeds
CanConsume(c, ty) == c.err = "" /\ ~eof(c) /\ peek(c).ty = ty

\* the cursor after a successful Context::consume
skip(c) == [c EXCEPT !.pos = @ + 1]

\* Context::get: the token must be there and of type ty
get(c, ty, msg) == IF ~eof(c) /\ peek(c).ty = ty THEN next(c) ELSE PPPanic(c, msg)

\* Context::ident succeeds: the token is an identifier or a string
IsName(c) == c.err = "" /\ ~eof(c) /\ peek(c).ty \in {"Ident", "Str"}

push(c, t) == IF c.err # "" THEN c ELSE [c EXCEPT !.output = Append(@, t)]

append(c, ts) == IF c.err # "" THEN c ELSE [c EXCEPT !.output = @ \o ts]

\* Context::read_until_eol: the tokens up to the end of the line
RECURSIVE EolTokens(_, _)
EolTokens(c, i) ==
  IF i > Len(c.input) \/ c.input[i].ty = "NewLine" THEN <<>>
  ELSE <<c.input[i]>> \o EolTokens(c, i + 1)

\* Context::read_until_eol: the cursor after it, past the NewLine if there is one
AfterEol(c) ==
  LET n == Len(EolTokens(c, c.pos + 1))
      to == IF c.pos + n < Len(c.input) THEN c.pos + n + 1 ELSE c.pos + n
  IN [c EXCEPT !.input = [i \in 1..Len(c.input) |->
                            IF i > c.pos /\ i <= to THEN DefaultToken ELSE c.input[i]],
               !.pos = to]

is_ident(t, s) == t.ty = "Ident" /\ t.s = s

(***************************************************************************)
(* preprocess.rs: macros.  A macro is [ty, params, tokens].                *)
(***************************************************************************)
Macro(ty, params, tokens) == [ty |-> ty, params |-> params, tokens |-> tokens]

\* replace_params: the index its map gives a name (the last parameter of
\* that name), -1 for a name that is no parameter
ParamIndex(params, name) ==
  LET is == {i \in 1..Len(params) : params[i] = name}
  IN IF is = {} THEN 0 - 1 ELSE (CHOOSE i \in is : \A j \in is : j <= i) - 1

\* replace_params, first loop: identifiers that name a parameter become placeholders
ParamTokens(params, tokens) ==
  [i \in 1..Len(tokens) |->
     IF tokens[i].ty = "Ident" /\ ParamIndex(params, tokens[i].s) >= 0
     THEN NewToken("Param", "", ParamIndex(params, tokens[i].s))
     ELSE tokens[i]]

\* replace_params, second loop: a `#` that is not last marks the token after
\* it for stringizing and is dropped
RECURSIVE StringizeMarks(_, _)
StringizeMarks(tokens, i) ==
  IF i > Len(tokens) THEN <<>>
  ELSE IF i # Len(tokens) /\ tokens[i].ty = "HashMark"
       THEN <<[tokens[i + 1] EXCEPT !.stringize = TRUE]>> \o StringizeMarks(tokens, i + 2)
       ELSE <<tokens[i]>> \o StringizeMarks(tokens, i + 1)

replace_params(params, tokens) == StringizeMarks(ParamTokens(params, tokens), 1)

\* funclike_macro: the parameter list after the first name; r = [c, params]
RECURSIVE read_params(_, _)
read_params_name(c, params) ==
  IF IsName(c) THEN read_params(next(c), Append(params, peek(c).s))
  ELSE [c |-> PPPanic(c, "parameter name expected"), params |-> params]

read_params(c, params) ==
  IF c.err # "" THEN [c |-> c, params |-> params]
  ELSE IF CanConsume(c, "RightParen") THEN [c |-> skip(c), params |-> params]
  ELSE read_params_name(get(c, "Comma", "comma expected"), params)

\* funclike_macro once the parameters are read
funclike_macro_body(r) ==
  [c |-> IF r.c.err # "" THEN r.c ELSE AfterEol(r.c),
   m |-> Macro("Funclike", r.params,
               replace_params(r.params, EolTokens(r.c, r.c.pos + 1)))]

funclike_macro(c) == funclike_macro_body(read_params_name(c, <<>>))

objlike_macro(c) ==
  [c |-> AfterEol(c), m |-> Macro("Objlike", <<>>, EolTokens(c, c.pos + 1))]

\* define, once the name is read: [c, m], the cursor and the macro to insert
define(c) ==
  IF CanConsume(c, "LeftParen") THEN funclike_macro(skip(c)) ELSE objlike_macro(c)

\* a mutant of LevelAfter: the nesting depth is not tracked
LevelStuck(level, t) == level

\* read_one_arg: the nesting depth after token t
LevelAfter(level, t) ==
  CASE t.ty = "LeftParen" -> level + 1
    [] t.ty = "RightParen" -> level - 1
    [] OTHER -> level

\* read_one_arg: [c, arg], the cursor and the tokens of one argument
RECURSIVE read_one_arg_loop(_, _, _)
read_one_arg_loop(c, arg, level) ==
  IF eof(c) THEN [c |-> PPPanic(c, "unclosed macro argument"), arg |-> arg]
  ELSE IF level = 0 /\ peek(c).ty \in {"RightParen", "Comma"} THEN [c |-> c, arg |-> arg]
  ELSE read_one_arg_loop(next(c), Append(arg, peek(c)), LevelAfter(level, peek(c)))

read_one_arg(c) ==
  IF c.err # "" THEN [c |-> c, arg |-> <<>>] ELSE read_one_arg_loop(c, <<>>, 0)

\* read_args: [c, args]
RECURSIVE read_args_loop(_, _)
read_args_push(args, a) == read_args_loop(a.c, Append(args, a.arg))

read_args_loop(c, args) ==
  IF c.err # "" THEN [c |-> c, args |-> args]
  ELSE IF CanConsume(c, "RightParen") THEN [c |-> skip(c), args |-> args]
  ELSE read_args_push(args, read_one_arg(get(c, "Comma", "comma expected")))

read_args(c) ==
  IF CanConsume(c, "RightParen") THEN [c |-> skip(c), args |-> <<>>]
  ELSE read_args_push(<<>>, read_one_arg(c))

\* the texts of tokens joined by single spaces
RECURSIVE JoinTexts(_, _)
JoinTexts(tokens, i) ==
  IF i > Len(tokens) THEN ""
  ELSE (IF i # 1 THEN " " ELSE "") \o tokstr(tokens[i]) \o JoinTexts(tokens, i + 1)

stringize(tokens) == NewToken("Str", JoinTexts(tokens, 1), 0)

\* add_special_macro: the number that replaces __LINE__
LineToken(t) == NewToken("Num", "", t.line)

\* apply_objlike: what one body token puts on the output
ObjlikeToken(t) == IF is_ident(t, "__LINE__") THEN LineToken(t) ELSE t

\* the tokens ts with every name of an object-like macro expanded
RECURSIVE Rescan(_, _)
Rescan(ts, i) ==
  IF i > Len(ts) THEN <<>>
  ELSE (IF ts[i].ty = "Ident" /\ ts[i].s \in DOMAIN macros /\ macros[ts[i].s].ty = "Objlike"
        THEN macros[ts[i].s].tokens ELSE <<ts[i]>>) \o Rescan(ts, i + 1)

\* a mutant of FunclikeTokens: what is put on the output is scanned for macros
FunclikeTokensRescanned(t, args) ==
  IF is_ident(t, "__LINE__") THEN <<LineToken(t)>>
  ELSE IF t.ty = "Param"
       THEN (IF t.stringize THEN <<stringize(args[t.val + 1])>>
             ELSE Rescan(args[t.val + 1], 1))
       ELSE Rescan(<<t>>, 1)

\* apply_funclike: what one body token puts on the output
FunclikeTokens(t, args) ==
  IF is_ident(t, "__LINE__") THEN <<LineToken(t)>>
  ELSE IF t.ty = "Param"
       THEN (IF t.stringize THEN <<stringize(args[t.val + 1])>> ELSE args[t.val + 1])
       ELSE <<t>>

RECURSIVE Replay(_, _, _)
\* apply_funclike: the loop over the body
Replay(tokens, args, i) ==
  IF i > Len(tokens) THEN <<>>
  ELSE FunclikeTokens(tokens[i], args) \o Replay(tokens, args, i + 1)

(***************************************************************************)
(* preprocess.rs: the driver.  pp_stack is the chain of frames, the active *)
(* one last; pp_pc is "idle" before Context::new, "loop" while preprocess  *)
(* runs, "panic" once the process has aborted and "done" when the          *)
(* outermost call has returned pp_result.                                  *)
(***************************************************************************)
\* the texts of the files an #include can name
Files(path) ==
  CASE path = "h" -> <<"#", "define", "N", "3", "NL", "N", "NL">>
    [] path = "g" -> <<"2", "NL", "#", "include", "\"h\"", "NL", "N", "NL">>
    [] OTHER -> <<>>

FileNames == {"h", "g"}

\* the active frame
Top == CtxOf(pp_stack[Len(pp_stack)])

SetTop(c) == [pp_stack EXCEPT ![Len(pp_stack)] = FrameOf(c)]

\* macros.insert
MacrosInsert(name, m) ==
  [n \in DOMAIN macros \cup {name} |-> IF n = name THEN m ELSE macros[n]]

\* the token the loop takes is an identifier that names a macro of type ty
AtMacro(ty) ==
  /\ pp_pc = "loop"
  /\ ~eof(Top)
  /\ peek(Top).ty = "Ident"
  /\ peek(Top).s \in DOMAIN macros
  /\ macros[peek(Top).s].ty = ty

\* the token the loop takes is a `#`
AtDirective == pp_pc = "loop" /\ ~eof(Top) /\ peek(Top).ty = "HashMark"

\* the directive name ctx.ident reads after the `#`, "" if it panics
DirectiveName == IF IsName(next(Top)) THEN peek(next(Top)).s ELSE ""

\* one iteration of the loop ends with the active frame c, or in a panic
PPStep(c) ==
  IF c.err # ""
  THEN pp_pc' = "panic" /\ pp_err' = c.err /\ UNCHANGED pp_stack
  ELSE pp_pc' = "loop" /\ pp_err' = "" /\ pp_stack' = SetTop(c)

PPIdle ==
  /\ pp_stack = <<>>
  /\ macros = <<>>
  /\ pp_pc = "idle"
  /\ pp_err = ""
  /\ pp_result = <<>>
  /\ pp_start = DefaultToken
  /\ pp_args = <<>>

\* Context::new, then preprocess(tokens, ctx) pushes the frame of the tokens
PPStart(src) ==
  /\ pp_pc = "idle"
  /\ pp_stack' = <<Preprocess(<<>>), Preprocess(Lex(src))>>
  /\ pp_pc' = "loop"
  /\ UNCHANGED <<macros, pp_err, pp_result, pp_start, pp_args>>

\* a token that is neither a macro name nor a `#` is copied
PPCopy ==
  /\ pp_pc = "loop"
  /\ ~eof(Top)
  /\ \/ peek(Top).ty = "Ident" /\ peek(Top).s \notin DOMAIN macros
     \/ peek(Top).ty \notin {"Ident", "HashMark"}
  /\ PPStep(push(next(Top), peek(Top)))
  /\ UNCHANGED <<macros, pp_result, pp_start, pp_args>>

\* apply_objlike
PPApplyObjlike ==
  /\ AtMacro("Objlike")
  /\ PPStep(append(next(Top), [i \in 1..Len(macros[peek(Top).s].tokens) |->
                                 ObjlikeToken(macros[peek(Top).s].tokens[i])]))
  /\ pp_start' = peek(Top)
  /\ UNCHANGED <<macros, pp_result, pp_args>>

\* a mutant of CountMismatch: surplus arguments are let through
CountMismatchShort(params, args) == Len(params) > Len(args)

\* apply_funclike: `params.len() != args.len()`
CountMismatch(params, args) == Len(params) # Len(args)

\* apply_funclike once the arguments are read
apply_funclike_after_args(m, r) ==
  IF r.c.err # "" THEN r.c
  ELSE IF CountMismatch(m.params, r.args)
       THEN PPPanic(r.c, "number of parameter does not match")
       ELSE append(r.c, Replay(m.tokens, r.args, 1))

\* apply_funclike once the `(` is read
apply_funclike_args(m, r) ==
  /\ PPStep(apply_funclike_after_args(m, r))
  /\ pp_args' = IF r.c.err # "" THEN pp_args ELSE r.args

PPApplyFunclike ==
  /\ AtMacro("Funclike")
  /\ apply_funclike_args(macros[peek(Top).s],
                         read_args(get(next(Top), "LeftParen", "comma expected")))
  /\ pp_start' = peek(Top)
  /\ UNCHANGED <<macros, pp_result>>

\* define once the macro is read
define_insert(name, r) ==
  /\ PPStep(r.c)
  /\ macros' = IF r.c.err # "" THEN macros ELSE MacrosInsert(name, r.m)

\* `#define`: c stands after the directive name
define_name(c) ==
  IF IsName(c) THEN define_insert(peek(c).s, define(next(c)))
  ELSE PPStep(PPPanic(c, "macro name expected")) /\ UNCHANGED macros

PPDefine ==
  /\ AtDirective
  /\ DirectiveName = "define"
  /\ define_name(next(next(Top)))
  /\ UNCHANGED <<pp_result, pp_start, pp_args>>

\* include once the path is read: c stands after it; tokenize scans the
\* file and hands its tokens to a nested preprocess
include_path(path, c) ==
  IF eof(c) \/ peek(c).ty # "NewLine" THEN PPStep(PPPanic(c, "newline expected"))
  ELSE IF path \notin FileNames THEN PPStep(PPPanic(c, "cannot open file"))
  ELSE /\ pp_stack' = Append(SetTop(next(c)), Preprocess(Lex(Files(path))))
       /\ UNCHANGED <<pp_pc, pp_err>>

\* `#include`: c stands after the directive name
include(c) ==
  IF IsName(c) THEN include_path(peek(c).s, next(c))
  ELSE PPStep(PPPanic(c, "string expected"))

PPInclude ==
  /\ AtDirective
  /\ DirectiveName = "include"
  /\ include(next(next(Top)))
  /\ UNCHANGED <<macros, pp_result, pp_start, pp_args>>

\* a `#` that no directive name follows, or an unknown one
PPBadDirective ==
  /\ AtDirective
  /\ DirectiveName \notin {"define", "include"}
  /\ PPStep(PPPanic(Top, IF IsName(next(Top)) THEN "unknown directive"
                         ELSE "identifier expected"))
  /\ UNCHANGED <<macros, pp_result, pp_start, pp_args>>

\* tokenize after its preprocess: the NewLine tokens are stripped
RECURSIVE StripNewlines(_, _)
StripNewlines(tokens, i) ==
  IF i > Len(tokens) THEN <<>>
  ELSE (IF tokens[i].ty = "NewLine" THEN <<>> ELSE <<tokens[i]>>) \o StripNewlines(tokens, i + 1)

\* the frame that was active at the call is made the active one again
RestoreEmptied(stack) ==
  [SubSeq(stack, 1, Len(stack) - 1) EXCEPT ![Len(stack) - 1].output = <<>>]

Restore(stack) == SubSeq(stack, 1, Len(stack) - 1)

\* the input is exhausted: the frame is popped and its output returned, to
\* the include that called for it or to the caller of the outermost preprocess
PPFinish ==
  /\ pp_pc = "loop"
  /\ eof(Top)
  /\ IF Len(pp_stack) > 2
     THEN /\ pp_stack' = [Restore(pp_stack)
                            EXCEPT ![Len(pp_stack) - 1].output =
                                     @ \o StripNewlines(Top.output, 1)]
          /\ UNCHANGED <<pp_pc, pp_result>>
     ELSE /\ pp_stack' = Restore(pp_stack)
          /\ pp_pc' = "done"
          /\ pp_result' = Top.output
  /\ UNCHANGED <<macros, pp_err, pp_start, pp_args>>

(***************************************************************************)
(* The source texts that are preprocessed, as their lexemes.               *)
(***************************************************************************)
Def1 == <<"#", "define", "F", "(", "a", ")", "a", "NL">>

Def2 == <<"#", "define", "F", "(", "a", ",", "b", ")", "a", "+", "b", "NL">>

TailToks == {"(", ")", ",", "1"}

\* the sequences of at most n lexemes that follow a generated `F (`
RECURSIVE Tails(_)
Tails(n) ==
  IF n = 0 THEN {<<>>}
  ELSE Tails(n - 1) \cup {Append(t, x) : t \in {u \in Tails(n - 1) : Len(u) = n - 1},
                                         x \in TailToks}

\* a definition of F with one or two parameters, then `F (` and what follows
Invocations == {d \o <<"F", "(">> \o t : d \in {Def1, Def2}, t \in Tails(MaxTailToks)}

Samples ==
  { <<"#", "define", "SQ", "(", "x", ")", "(", "(", "x", ")", "*", "(", "x", ")", ")", "NL",
      "SQ", "(", "3", "+", "1", ")", "NL">>,
    Def2 \o <<"F", "(", "(", "1", ",", "2", ")", ",", "3", ")", "NL">>,
    <<"#", "define", "N", "3", "NL", "#", "define", "G", "(", "x", ")", "N", "x", "NL",
      "G", "(", "N", ")", "NL", "N", "NL">>,
    <<"#", "define", "L", "(", "x", ")", "__LINE__", "x", "NL", "NL", "L", "(", "1", ")", "NL">>,
    <<"#", "define", "M", "__LINE__", "NL", "NL", "M", "NL">>,
    <<"#", "define", "S", "(", "x", ")", "#", "x", "NL", "S", "(", "1", "+", "2", ")", "NL">>,
    <<"#", "include", "\"h\"", "NL", "N", "NL">>,
    <<"#", "include", "\"h\"", "N", "NL">>,
    <<"1", "NL", "#", "include", "\"g\"", "NL", "N", "NL">>,
    <<"#", "pragma", "NL">>,
    <<"#", "define", "3", "NL">>,
    <<"#", "define", "F", "(", ")", "1", "NL">>,
    Def1 \o <<"F", "1", "NL">> }

BodyToks == {"#", "x", "+"}

\* the sequences of at most n lexemes that make the body of a generated S(x)
RECURSIVE Bodies(_)
Bodies(n) ==
  IF n = 0 THEN {<<>>}
  ELSE Bodies(n - 1) \cup {Append(t, x) : t \in {u \in Bodies(n - 1) : Len(u) = n - 1},
                                          x \in BodyToks}

\* a definition of S(x) with a generated body, then `S(a + b)`
Stringizers ==
  {<<"#", "define", "S", "(", "x", ")">> \o b \o <<"NL", "S", "(", "a", "+", "b", ")", "NL">> :
     b \in Bodies(MaxBodyToks)}

PPSources == Samples \cup Invocations \cup Stringizers

(***************************************************************************)
(* Function-like macro invocations (C8, C9, C10).  The operators below     *)
(* read an invocation off the input of the active frame, where the loop    *)
(* is about to take the macro's name.                                      *)
(***************************************************************************)
\* the macro about to be applied
CallMacro == macros[peek(Top).s]

\* a `(` follows the name
HasParen == Top.pos + 2 <= Len(Top.input) /\ Top.input[Top.pos + 2].ty = "LeftParen"

\* the tokens after that `(`
CallToks == SubSeq(Top.input, Top.pos + 3, Len(Top.input))

\* the parentheses open before the i-th token of ts
DepthAt(ts, i) ==
  Cardinality({j \in 1..(i - 1) : ts[j].ty = "LeftParen"})
    - Cardinality({j \in 1..(i - 1) : ts[j].ty = "RightParen"})

Closers(ts) == {i \in 1..Len(ts) : ts[i].ty = "RightParen" /\ DepthAt(ts, i) = 0}

\* the `)` that closes the invocation
CloseAt(ts) == CHOOSE i \in Closers(ts) : \A j \in Closers(ts) : i <= j

\* the invocation has its parentheses
WellFormed == HasParen /\ Closers(CallToks) # {}

\* the commas of the invocation at nesting depth 0
Seps(ts) == {i \in 1..(CloseAt(ts) - 1) : ts[i].ty = "Comma" /\ DepthAt(ts, i) = 0}

\* the number of arguments the invocation supplies
ArgCount(ts) == IF CloseAt(ts) = 1 THEN 0 ELSE Cardinality(Seps(ts)) + 1

\* the k-th smallest member of S
KthOf(S, k) == CHOOSE x \in S : Cardinality({y \in S : y < x}) = k - 1

\* the arguments of the invocation: what lies between the `(`, the commas at
\* depth 0 and the closing `)`
SplitArgs(ts) ==
  [k \in 1..ArgCount(ts) |->
     SubSeq(ts, KthOf(Seps(ts) \cup {0, CloseAt(ts)}, k) + 1,
                KthOf(Seps(ts) \cup {0, CloseAt(ts)}, k + 1) - 1)]

\* the literal texts of tokens
TextsOf(tokens) == [i \in 1..Len(tokens) |-> tokstr(tokens[i])]

\* C8: when the loop takes the name of a function-like macro of n parameters
\* and the invocation supplies m # n arguments (none, for `F()`), the run
\* aborts and has returned nothing; an aborted run stays aborted.
C8_ArgCountMismatchFails ==
  [][/\ (AtMacro("Funclike") /\ WellFormed /\ ArgCount(CallToks) # Len(CallMacro.params))
          => (pp_pc' = "panic" /\ pp_result' = <<>>)
     /\ pp_pc = "panic" => (pp_pc' = "panic" /\ pp_result' = <<>>)]_vars

\* `F()` against the two parameters of `#define F(a,b) a+b`: no argument was
\* read and the run has aborted on the count
C8_Witness ==
  /\ pp_pc = "panic"
  /\ pp_err = "number of parameter does not match"
  /\ pp_start.s = "F"
  /\ Len(macros["F"].params) = 2
  /\ pp_args = <<>>
  /\ pp_result = <<>>

\* C9: the arguments read for an invocation are the token lists between its
\* `(`, its commas at nesting depth 0 and the `)` at nesting depth 0:
\* commas and parentheses inside a nested `(...)` stay in their argument.
C9_ArgSplitTracksDepth ==
  [][(AtMacro("Funclike") /\ WellFormed) => pp_args' = SplitArgs(CallToks)]_vars

\* `F((1,2),3)` has been read as the two arguments `(1,2)` and `3`
C9_Witness ==
  /\ pp_start.s = "F"
  /\ pp_pc = "loop"
  /\ Len(pp_args) = 2
  /\ TextsOf(pp_args[1]) = <<"(", "1", ",", "2", ")">>
  /\ TextsOf(pp_args[2]) = <<"3">>

\* a place in an expansion that holds a token made by the expansion
Mark(ty) == MkToken(ty, "", 0, 0)

\* what one token of a replacement list stands for in the expansion; line
\* says whether an identifier __LINE__ of the list is replaced by a number
SpliceToken(t, args, line) ==
  IF t.ty = "Param" THEN (IF t.stringize THEN <<Mark("StrMark")>> ELSE args[t.val + 1])
  ELSE IF line /\ is_ident(t, "__LINE__") THEN <<Mark("LineMark")>>
  ELSE <<t>>

\* the replacement list with its placeholders replaced
RECURSIVE Splice(_, _, _, _)
Splice(body, args, line, i) ==
  IF i > Len(body) THEN <<>>
  ELSE SpliceToken(body[i], args, line) \o Splice(body, args, line, i + 1)

\* the tokens out are the expansion exp: token for token, a string at the
\* place of a stringized placeholder, a number at the place of __LINE__
Conforms(out, exp) ==
  /\ Len(out) = Len(exp)
  /\ \A i \in 1..Len(exp) :
       CASE exp[i].ty = "StrMark" -> out[i].ty = "Str"
         [] exp[i].ty = "LineMark" -> out[i].ty = "Num"
         [] OTHER -> out[i] = exp[i]

IsPrefix(s, t) == Len(s) <= Len(t) /\ SubSeq(t, 1, Len(s)) = s

\* what this step has put on the output of the active frame
Emitted == SubSeq(Top'.output, Len(Top.output) + 1, Len(Top'.output))

\* the invocation about to be applied supplies as many arguments as the
\* macro has parameters
CallMatches == AtMacro("Funclike") /\ WellFormed /\ ArgCount(CallToks) = Len(CallMacro.params)

\* no step changes what a frame has already put out
OutputsKept ==
  \A k \in 1..Len(pp_stack) :
    k <= Len(pp_stack') => IsPrefix(pp_stack[k].output, pp_stack'[k].output)

\* C10 as stated: the expansion appends the replacement list with every plain
\* placeholder replaced by its argument's tokens and every other token of
\* the list as it is, and nothing put out is changed afterwards.
C10_SinglePassSubstitution_Stated ==
  [][/\ CallMatches =>
          Conforms(Emitted, Splice(CallMacro.tokens, SplitArgs(CallToks), FALSE, 1))
     /\ OutputsKept]_vars

\* C10: the expansion appends the replacement list with every plain
\* placeholder replaced by the verbatim tokens of its argument, an
\* identifier __LINE__ of the list replaced by a number, and every other
\* token of the list as it is; neither the argument tokens nor the tokens
\* of the list are expanded further, and nothing put out is changed
\* afterwards.
C10_SinglePassSubstitution ==
  [][/\ CallMatches =>
          Conforms(Emitted, Splice(CallMacro.tokens, SplitArgs(CallToks), TRUE, 1))
     /\ OutputsKept]_vars

\* `SQ(3+1)` under `#define SQ(x) ((x)*(x))` has put out `((3+1)*(3+1))`
C10_Witness ==
  /\ pp_pc = "loop"
  /\ pp_start.s = "SQ"
  /\ TextsOf(Top.output) = <<"(", "(", "3", "+", "1", ")", "*", "(", "3", "+", "1", ")", ")">>

(***************************************************************************)
(* Stringizing (C11).                                                      *)
(***************************************************************************)
\* the loop is about to take a `#define` of a function-like macro that
\* succeeds
DefinesFunclike ==
  /\ AtDirective
  /\ DirectiveName = "define"
  /\ IsName(next(next(Top)))
  /\ CanConsume(next(next(next(Top))), "LeftParen")
  /\ pp_pc' = "loop"

\* the name that is defined, the parameters and the body as the source has them
DefName == peek(next(next(Top))).s

DefParams == read_params_name(skip(next(next(next(Top)))), <<>>).params

DefBody ==
  EolTokens(Top, read_params_name(skip(next(next(next(Top)))), <<>>).c.pos + 1)

\* the members of the sequence s at the positions P, in order
AtPositions(s, P) == [k \in 1..Cardinality(P) |-> s[KthOf(P, k)]]

\* the parameter occurrences of a source body, in order: which parameter,
\* and whether a `#` precedes it
SourceParams(params, body) ==
  AtPositions([i \in 1..Len(body) |->
                 [val |-> ParamIndex(params, body[i].s),
                  stringize |-> i > 1 /\ body[IF i > 1 THEN i - 1 ELSE 1].ty = "HashMark"]],
              {i \in 1..Len(body) : body[i].ty = "Ident" /\ ParamIndex(params, body[i].s) >= 0})

\* the placeholders of a stored replacement list, in order
StoredParams(tokens) ==
  AtPositions([i \in 1..Len(tokens) |->
                 [val |-> tokens[i].val, stringize |-> tokens[i].stringize]],
              {i \in 1..Len(tokens) : tokens[i].ty = "Param"})

\* the `#` of a source body that no parameter follows
FreeHashes(params, body) ==
  {i \in 1..Len(body) :
     /\ body[i].ty = "HashMark"
     /\ ~(i < Len(body) /\ body[IF i < Len(body) THEN i + 1 ELSE i].ty = "Ident"
            /\ ParamIndex(params, body[IF i < Len(body) THEN i + 1 ELSE i].s) >= 0)}

CountOf(tokens, ty) == Cardinality({i \in 1..Len(tokens) : tokens[i].ty = ty})

\* texts joined by single spaces
RECURSIVE Joined(_, _)
Joined(texts, i) ==
  IF i > Len(texts) THEN ""
  ELSE IF i = Len(texts) THEN texts[i]
  ELSE texts[i] \o " " \o Joined(texts, i + 1)

\* the texts of the string tokens among tokens, in order
StringsOf(tokens) ==
  AtPositions([i \in 1..Len(tokens) |-> tokens[i].s],
              {i \in 1..Len(tokens) : tokens[i].ty = "Str"})

\* what a token of a stored replacement list puts out, a stringized
\* placeholder being one string of its argument's texts
StringizedToken(t, args) ==
  IF t.ty = "Param"
  THEN (IF t.stringize THEN <<MkToken("Str", Joined(TextsOf(args[t.val + 1]), 1), 0, 1)>>
        ELSE args[t.val + 1])
  ELSE <<t>>

RECURSIVE Stringized(_, _, _)
Stringized(body, args, i) ==
  IF i > Len(body) THEN <<>>
  ELSE StringizedToken(body[i], args) \o Stringized(body, args, i + 1)

\* C11: a `#define` of a function-like macro stores, for every parameter
\* occurrence of the body, a placeholder that is flagged for stringizing
\* exactly when a `#` precedes the occurrence, and stores no `#` that
\* precedes a parameter; an expansion puts out, for every flagged
\* placeholder, exactly one string token whose text is the texts of the
\* argument's tokens joined by single spaces, and no `#` for it.
C11_Stringizing ==
  [][/\ DefinesFunclike =>
          /\ StoredParams(macros'[DefName].tokens) = SourceParams(DefParams, DefBody)
          /\ CountOf(macros'[DefName].tokens, "HashMark")
               <= Cardinality(FreeHashes(DefParams, DefBody))
     /\ CallMatches =>
          /\ StringsOf(Emitted)
               = StringsOf(Stringized(CallMacro.tokens, SplitArgs(CallToks), 1))
          /\ CountOf(Emitted, "HashMark")
               = CountOf(Stringized(CallMacro.tokens, SplitArgs(CallToks), 1), "HashMark")]_vars

\* the source body about to be stored has no `#` next to another
NoDoubleHash ==
  \A i \in 1..Len(DefBody) :
    i < Len(DefBody) =>
      ~(DefBody[i].ty = "HashMark" /\ DefBody[IF i < Len(DefBody) THEN i + 1 ELSE i].ty = "HashMark")

\* the statement of C11 for the bodies in which no `#` follows another
StringizingSingleHash ==
  [][/\ (DefinesFunclike /\ NoDoubleHash) =>
          /\ StoredParams(macros'[DefName].tokens) = SourceParams(DefParams, DefBody)
          /\ CountOf(macros'[DefName].tokens, "HashMark")
               <= Cardinality(FreeHashes(DefParams, DefBody))
     /\ CallMatches =>
          /\ StringsOf(Emitted)
               = StringsOf(Stringized(CallMacro.tokens, SplitArgs(CallToks), 1))
          /\ CountOf(Emitted, "HashMark")
               = CountOf(Stringized(CallMacro.tokens, SplitArgs(CallToks), 1), "HashMark")]_vars

(***************************************************************************)
(* __LINE__ in an object-like macro (C12).                                 *)
(***************************************************************************)
\* C12: when the loop takes the name of an object-like macro, what is put
\* out in place of every __LINE__ of its body is a number that holds the
\* line of that name, the use site.
C12_LineOfUseSite ==
  [][AtMacro("Objlike") =>
       \A i \in 1..Len(CallMacro.tokens) :
         is_ident(CallMacro.tokens[i], "__LINE__") =>
           /\ i <= Len(Emitted)
           /\ Emitted[IF i <= Len(Emitted) THEN i ELSE 1].ty = "Num"
           /\ Emitted[IF i <= Len(Emitted) THEN i ELSE 1].val = peek(Top).line]_vars

(***************************************************************************)
(* sema() called more than once in one process (C13).  The statics of      *)
(* sema.rs are process-wide: a further call starts with the values the     *)
(* earlier calls left.  The units are short: a global, a function that     *)
(* uses it, a function with a string literal.                              *)
(***************************************************************************)
CharTy == [ty |-> "Char", size |-> 1, align |-> 1, of |-> <<>>, len |-> 0, members |-> <<>>]

\* the node of the string literal "s"
StrNode == MkNode("Str", "s", 2, AryOf(CharTy, 2), <<>>, NoScope)

RepeatItems ==
  { GlobalDef("x"),
    FuncDef("f", <<>>, <<Use("x")>>),
    FuncDef("f", <<>>, <<NewNode("ExprStmt", "", <<StrNode>>)>>) }

\* the items that may come next in a short unit
NextRepeatItems == IF Len(nodes) < MaxUnitItems THEN RepeatItems ELSE {}

\* sema is entered again after an earlier call has returned
SemaAgain ==
  /\ sema_pc = "done"
  /\ Len(GLOBALS) < MaxKeptGlobals
  /\ topenv' = EnvNew(<<>>)
  /\ nodes' = <<>>
  /\ new_nodes' = <<>>
  /\ sema_pc' = "loop"
  /\ UNCHANGED <<STRLABEL, GLOBALS, STACKSIZE>>

\* the number of string literals in the nodes ns
RECURSIVE StrCount(_)
StrCount(ns) ==
  IF ns = <<>> THEN 0
  ELSE (IF Head(ns).op = "Str" THEN 1 ELSE 0) + StrCount(Head(ns).kids) + StrCount(Tail(ns))

\* the names of the global variables the nodes ns define
GlobalNames(ns) == {ns[k].name : k \in {j \in 1..Len(ns) : IsGlobalDef(ns[j])}}

\* C13: the global table a call of sema returns holds the globals and the
\* string literals of the declarations passed to that call and nothing
\* else, its string labels numbered from 0, whatever was compiled earlier
\* in the process.
C13_NoInterference ==
  sema_pc = "done" =>
    /\ Len(GLOBALS) = Cardinality({j \in 1..Len(nodes) : IsGlobalDef(nodes[j])})
                        + StrCount(nodes)
    /\ {GLOBALS[i].name : i \in 1..Len(GLOBALS)}
         = GlobalNames(nodes)
             \cup {".L.str" \o ToString(j) : j \in 0..(StrCount(nodes) - 1)}

(***************************************************************************)
(* The lowering of if-else (C14).                                          *)
(***************************************************************************)
\* the instructions the statement of C14 lists for the if-else node, lowered
\* in state g: the condition, the branch-if-false to x (and the kill of the
\* condition's register), the then-branch, the jump to y, the definition of
\* x, the else-branch, the definition of y
StatedIfElse(node, g) ==
  LET x == g.NLABEL
      y == g.NLABEL + 1
      c == gen_expr(node.kids[1], bump_nlabel(bump_nlabel(g)))
      t == gen_stmt(node.kids[2], adds(c.g, <<MkIR("Unless", c.r, x), kill(c.r)>>))
      e == gen_stmt(node.kids[3], adds(t, <<MkIR("Jmp", y, -1), label(x)>>))
  IN add(e, label(y)).CODE

\* the statements of the body of the k-th function
BodyOf(k) == GenAst(k).kids[Len(GenAst(k).kids)].kids

\* the IR of the k-th function after the stores of its parameters
AfterParams(k) == SubSeq(v[k].ir, Len(GenAst(k).kids), Len(v[k].ir))

\* C14: the IR of a function whose body is one if-else statement is, after
\* the stores of the parameters, the condition's lowering, one
\* branch-if-false to a fresh label x, the then-branch's lowering, a jump to
\* a second fresh label y, the definition of x, the else-branch's lowering
\* and the definition of y, and nothing else.
C14_IfElseLowering ==
  \A k \in 1..Len(v) :
    (Len(BodyOf(k)) = 1 /\ BodyOf(k)[1].op = "If" /\ Len(BodyOf(k)[1].kids) = 3) =>
      \E n \in 0..NLABEL :
        AfterParams(k) = StatedIfElse(BodyOf(k)[1], [GenStart EXCEPT !.NLABEL = n])

(***************************************************************************)
(* sema() on one expression over variables of every kind of type (C15,     *)
(* C16, C17).  The unit is an optional global array ga and a function      *)
(*   f() { int a; int *p; void *vp; int arr[2]; <pa>;                      *)
(*         struct { int m; int am[2]; } s;  e; }                           *)
(* with pa a pointer to an array of two int,                               *)
(* where e is a chain of at most MaxWalkNodes - 1 operators `*`, `&`,      *)
(* `.m`, `.am` applied to a variable, the literal 1 or a string literal.   *)
(***************************************************************************)
StructTy ==
  [ty |-> "Struct", size |-> 12, align |-> 4, of |-> <<>>, len |-> 0,
   members |-> <<[name |-> "m", ty |-> IntTy, offset |-> 0],
                 [name |-> "am", ty |-> AryOf(IntTy, 2), offset |-> 4]>>]

\* the local variables of f, in the order of their definitions
WalkVars == <<"a", "p", "vp", "arr", "pa", "s">>

\* the declared type of a variable
VarType(name) ==
  CASE name = "a" -> IntTy
    [] name = "p" -> PtrTo(IntTy)
    [] name = "vp" -> PtrTo(VoidTy)
    [] name \in {"arr", "ga"} -> AryOf(IntTy, 2)
    [] name = "pa" -> PtrTo(AryOf(IntTy, 2))
    [] name = "s" -> StructTy

WalkLeaves == {"1", "str", "ga", "a", "p", "vp", "arr", "pa", "s"}

WalkOps == {"*", "&", ".m", ".am"}

\* the expressions of at most n nodes, operators first
RECURSIVE WalkExprs(_)
WalkExprs(n) ==
  IF n = 1 THEN {<<l>> : l \in WalkLeaves}
  ELSE WalkExprs(n - 1)
         \cup {<<o>> \o e : o \in WalkOps, e \in {x \in WalkExprs(n - 1) : Len(x) = n - 1}}

\* the node the parser makes of an expression
RECURSIVE ParseWalkExpr(_)
ParseWalkExpr(toks) ==
  CASE Head(toks) = "*" -> NewNode("Deref", "", <<ParseWalkExpr(Tail(toks))>>)
    [] Head(toks) = "&" -> NewNode("Addr", "", <<ParseWalkExpr(Tail(toks))>>)
    [] Head(toks) = ".m" -> NewNode("Dot", "m", <<ParseWalkExpr(Tail(toks))>>)
    [] Head(toks) = ".am" -> NewNode("Dot", "am", <<ParseWalkExpr(Tail(toks))>>)
    [] Head(toks) = "1" -> MkNode("Num", "", 1, IntTy, <<>>, NoScope)
    [] Head(toks) = "str" -> StrNode
    [] OTHER -> NewNode("Ident", Head(toks), <<>>)

\* the function f with the expression statement e
WalkFunc(toks) ==
  FuncDef("f", <<>>,
          [i \in 1..Len(WalkVars) |->
             MkNode("Vardef", WalkVars[i], 0, VarType(WalkVars[i]), <<>>, NoScope)]
            \o <<NewNode("ExprStmt", "", <<ParseWalkExpr(toks)>>)>>)

GlobalAry == MkNode("Vardef", "ga", 0, VarType("ga"), <<>>, Global("", 8, FALSE))

\* the items that may come next: the global first, if at all, then f
NextWalkItems ==
  IF nodes = <<>> THEN {GlobalAry} \cup {WalkFunc(e) : e \in WalkExprs(MaxWalkNodes)}
  ELSE IF nodes = <<GlobalAry>> THEN {WalkFunc(e) : e \in WalkExprs(MaxWalkNodes)}
  ELSE {}

\* the loop has taken f
TookFunc == nodes # <<>> /\ nodes[Len(nodes)].op = "Func"

\* the expression of f as the parser handed it over, and as walk returned it
GivenExpr == nodes[Len(nodes)].kids[1].kids[Len(WalkVars) + 1].kids[1]

WalkedExpr == new_nodes[Len(new_nodes)].kids[1].kids[Len(WalkVars) + 1].kids[1]

\* the walk of f has returned
Walked == TookFunc /\ sema_pc # "panic" /\ new_nodes # <<>>

\* the walk of f has panicked
Aborted == TookFunc /\ sema_pc = "panic"

\* a node and the nodes below it
RECURSIVE NodesIn(_)
NodesIn(node) == {node} \cup UNION {NodesIn(node.kids[i]) : i \in 1..Len(node.kids)}

\* the expression given is the operator op applied to a variable in scope
OpOnVar(op) ==
  /\ TookFunc
  /\ GivenExpr.op = op
  /\ GivenExpr.kids[1].op = "Ident"
  /\ (GivenExpr.kids[1].name = "ga" => Len(nodes) = 2)

\* the type a variable has as an operand: an array has decayed to a pointer
ValueType(name) ==
  IF VarType(name).ty = "Ary" THEN PtrTo(VarType(name).of[1]) ELSE VarType(name)

\* C15: a dereference that walk has returned has an operand of type
\* pointer-to-T with T not void, and has type T; the dereference of a
\* variable is walked successfully exactly when the variable's type as an
\* operand is pointer-to-T with T not void, and aborts the compilation
\* otherwise.
C15_DerefTyping ==
  /\ Walked =>
       \A n \in NodesIn(WalkedExpr) :
         n.op = "Deref" =>
           /\ n.kids[1].ty.ty = "Ptr"
           /\ n.kids[1].ty.of[1].ty # "Void"
           /\ n.ty = n.kids[1].ty.of[1]
  /\ OpOnVar("Deref") =>
       IF /\ ValueType(GivenExpr.kids[1].name).ty = "Ptr"
          /\ ValueType(GivenExpr.kids[1].name).of[1].ty # "Void"
       THEN Walked
       ELSE Aborted

\* the expression given is `&` applied to op applied to a variable in scope
AddrOfOpOnVar(op) ==
  /\ TookFunc
  /\ GivenExpr.op = "Addr"
  /\ GivenExpr.kids[1].op = op
  /\ GivenExpr.kids[1].kids[1].op = "Ident"
  /\ (GivenExpr.kids[1].kids[1].name = "ga" => Len(nodes) = 2)

\* the type of the member of the struct type t that is called name
MemberType(t, name) ==
  LET i == CHOOSE j \in 1..Len(t.members) : t.members[j].name = name
  IN  t.members[i].ty

\* walk has returned `&e` for an operand e of type t
AddrOfType(t) ==
  /\ Walked
  /\ WalkedExpr.op = "Addr"
  /\ WalkedExpr.ty = PtrTo(t)

\* C16: `&e` is walked successfully when e is a variable, a dereference of a
\* pointer or a member of a struct, whatever the type of e, and the node
\* returned has type pointer-to-(type of e); `&e` for a number or a string
\* literal aborts the compilation.
C16_AddrTyping ==
  /\ OpOnVar("Addr") => AddrOfType(VarType(GivenExpr.kids[1].name))
  /\ (AddrOfOpOnVar("Deref") /\ GivenExpr.kids[1].kids[1].name \in {"p", "pa"}) =>
       AddrOfType(VarType(GivenExpr.kids[1].kids[1].name).of[1])
  /\ (AddrOfOpOnVar("Dot") /\ GivenExpr.kids[1].kids[1].name = "s") =>
       AddrOfType(MemberType(StructTy, GivenExpr.kids[1].name))
  /\ (TookFunc /\ GivenExpr.op = "Addr" /\ GivenExpr.kids[1].op \in {"Num", "Str"}) =>
       Aborted

\* the type of the array that the expression given denotes, if it is one of
\* the forms arr, ga, "str", s.am, *pa; otherwise the type of int
GivenArrayType ==
  CASE GivenExpr.op = "Ident" /\ GivenExpr.name = "arr" -> VarType("arr")
    [] GivenExpr.op = "Ident" /\ GivenExpr.name = "ga" /\ Len(nodes) = 2 -> VarType("ga")
    [] GivenExpr.op = "Str" -> GivenExpr.ty
    [] GivenExpr.op = "Dot" /\ GivenExpr.name = "am" /\ GivenExpr.kids[1].op = "Ident"
         /\ GivenExpr.kids[1].name = "s" -> MemberType(StructTy, "am")
    [] GivenExpr.op = "Deref" /\ GivenExpr.kids[1].op = "Ident"
         /\ GivenExpr.kids[1].name = "pa" -> VarType("pa").of[1]
    [] OTHER -> IntTy

\* C17: the expression of an expression statement is walked in a value
\* context: when it denotes an array of T, as an identifier, a string
\* literal, a struct member or a dereference, the node returned is an
\* address-of node of type pointer-to-T around the array-typed node; and no
\* node returned for an expression statement or for the operand of a
\* dereference has an array type.
C17_ArrayDecay ==
  /\ (TookFunc /\ GivenArrayType.ty = "Ary") =>
       /\ Walked
       /\ WalkedExpr.op = "Addr"
       /\ WalkedExpr.ty = PtrTo(GivenArrayType.of[1])
       /\ WalkedExpr.kids[1].ty = GivenArrayType
  /\ Walked =>
       /\ WalkedExpr.ty.ty # "Ary"
       /\ \A n \in NodesIn(WalkedExpr) : n.op = "Deref" => n.kids[1].ty.ty # "Ary"

(***************************************************************************)
(* C18: the stack of frames.  pp_stack[1] is the frame of Context::new,    *)
(* the last element is the active frame.                                   *)
(***************************************************************************)
\* the frame below the active one
Caller == pp_stack[Len(pp_stack) - 1]

\* the frames below the active one are left as they are
CallersKept ==
  \A i \in 1..(Len(pp_stack) - 1) : pp_stack'[i] = pp_stack[i]

\* C18: a call of preprocess puts one frame, with nothing consumed and no
\* output, on top of the active one; while the call runs the frames below
\* the active one do not change; when it returns the stack is one frame
\* shorter, the frame that was active at the call is active again with the
\* input, cursor and output it had at the call (for `#include`, the output
\* then takes the tokens returned, without their newlines), and the tokens
\* returned are the output of the frame that was pushed.
C18_FrameStack ==
  [][/\ pp_pc = "idle" =>
          /\ Len(pp_stack') = 2
          /\ pp_stack'[1] = Preprocess(<<>>)
          /\ pp_stack'[2].output = <<>>
          /\ pp_stack'[2].pos = 0
     /\ (pp_pc = "loop" /\ Len(pp_stack') >= Len(pp_stack)) =>
          /\ CallersKept
          /\ Len(pp_stack') <= Len(pp_stack) + 1
          /\ Len(pp_stack') = Len(pp_stack) + 1 =>
               /\ pp_stack'[Len(pp_stack')].output = <<>>
               /\ pp_stack'[Len(pp_stack')].pos = 0
     /\ (pp_pc = "loop" /\ Len(pp_stack') < Len(pp_stack)) =>
          /\ Len(pp_stack') = Len(pp_stack) - 1
          /\ eof(Top)
          /\ \A i \in 1..(Len(pp_stack) - 2) : pp_stack'[i] = pp_stack[i]
          /\ pp_stack'[Len(pp_stack')].input = Caller.input
          /\ pp_stack'[Len(pp_stack')].pos = Caller.pos
          /\ IF Len(pp_stack) > 2
             THEN pp_stack'[Len(pp_stack')].output
                    = Caller.output \o StripNewlines(Top.output, 1)
             ELSE /\ pp_stack'[Len(pp_stack')].output = Caller.output
                  /\ pp_result' = Top.output]_vars

\* an include inside an included file has returned, and the file that began
\* with output of its own is the active frame again
C18_Witness ==
  /\ pp_pc = "loop"
  /\ Len(pp_stack) = 2
  /\ Top.pos >= 6
  /\ Len(Top.output) = 5
  /\ Top.output[1].ty = "Num"
  /\ Top.output[1].val = 1

(***************************************************************************)
(* C19: the KILL instructions of a lowered function.                       *)
(***************************************************************************)
\* the positions in ir of the KILL instructions of register r
KillsOf(ir, r) == {i \in 1..Len(ir) : ir[i].op = "Kill" /\ ir[i].lhs = r}

\* the registers from r1 on that occur in ir
Allocated(ir) == {AllRegs(ir)[i] : i \in 1..Len(AllRegs(ir))} \ {0}

\* C19: in the instruction list of every lowered function each register
\* r1, r2, ... that is allocated is the operand of exactly one KILL, no
\* instruction after that KILL refers to the register, and r0 is never the
\* operand of a KILL.
C19_KillDiscipline ==
  \A k \in 1..Len(v) :
    /\ \A r \in Allocated(v[k].ir) :
         /\ Cardinality(KillsOf(v[k].ir, r)) = 1
         /\ \A i \in KillsOf(v[k].ir, r) :
              \A j \in (i + 1)..Len(v[k].ir) :
                \A n \in 1..Len(RegsOf(v[k].ir[j])) : RegsOf(v[k].ir[j])[n] # r
    /\ KillsOf(v[k].ir, 0) = {}

\* a function in which a binary operation has consumed its right operand and
\* a statement has discarded the result: three registers, three KILLs
C19_Witness ==
  \E k \in 1..Len(v) :
    /\ Allocated(v[k].ir) = {1, 2, 3}
    /\ \E i \in 1..Len(v[k].ir) : v[k].ir[i].op \in {"Add", "Sub"}
    /\ Cardinality({i \in 1..Len(v[k].ir) : v[k].ir[i].op = "Kill"}) = 3

(***************************************************************************)
(* The specifications: one pass runs, the other passes' state is idle.     *)
(***************************************************************************)
InitSema == SemaInit /\ GenIdle /\ ExecIdle /\ PPIdle

NextSema ==
  \/ (\E toks \in NextItems : SemaGlobal(ParseItem(toks)))
       /\ UNCHANGED <<genVars, execVars, ppVars>>
  \/ (\E toks \in NextItems : SemaFunc(ParseItem(toks)))
       /\ UNCHANGED <<genVars, execVars, ppVars>>
  \/ SemaReturn /\ UNCHANGED <<genVars, execVars, ppVars>>

SpecSema == InitSema /\ [][NextSema]_vars

InitSemaRepeat == SemaInit /\ GenIdle /\ ExecIdle /\ PPIdle

NextSemaRepeat ==
  \/ (\E item \in NextRepeatItems : SemaGlobal(item))
       /\ UNCHANGED <<genVars, execVars, ppVars>>
  \/ (\E item \in NextRepeatItems : SemaFunc(item))
       /\ UNCHANGED <<genVars, execVars, ppVars>>
  \/ SemaReturn /\ UNCHANGED <<genVars, execVars, ppVars>>
  \/ SemaAgain /\ UNCHANGED <<genVars, execVars, ppVars>>

SpecSemaRepeat == InitSemaRepeat /\ [][NextSemaRepeat]_vars

InitSemaExpr == SemaInit /\ GenIdle /\ ExecIdle /\ PPIdle

NextSemaExpr ==
  \/ (\E item \in NextWalkItems : SemaGlobal(item))
       /\ UNCHANGED <<genVars, execVars, ppVars>>
  \/ (\E item \in NextWalkItems : SemaFunc(item))
       /\ UNCHANGED <<genVars, execVars, ppVars>>
  \/ SemaReturn /\ UNCHANGED <<genVars, execVars, ppVars>>

SpecSemaExpr == InitSemaExpr /\ [][NextSemaExpr]_vars

InitGen == GenInit /\ SemaIdle /\ ExecIdle /\ PPIdle

NextGen ==
  \/ (\E toks \in NextGenItems : GenFunc(toks)) /\ UNCHANGED <<semaVars, execVars, ppVars>>
  \/ (\E toks \in NextGenItems : GenNotFunc(toks)) /\ UNCHANGED <<semaVars, execVars, ppVars>>
  \/ GenReturn /\ UNCHANGED <<semaVars, execVars, ppVars>>

SpecGen == InitGen /\ [][NextGen]_vars

InitGenUnit == GenInit /\ SemaIdle /\ ExecIdle /\ PPIdle

NextGenUnit ==
  \/ (\E toks \in NextUnitItems : GenFunc(toks)) /\ UNCHANGED <<semaVars, execVars, ppVars>>
  \/ (\E toks \in NextUnitItems : GenNotFunc(toks)) /\ UNCHANGED <<semaVars, execVars, ppVars>>
  \/ GenReturn /\ UNCHANGED <<semaVars, execVars, ppVars>>

SpecGenUnit == InitGenUnit /\ [][NextGenUnit]_vars

InitExec == ExecIdle /\ SemaIdle /\ GenIdle /\ PPIdle

NextExec ==
  \/ (\E toks \in ExecExprs, val \in AVals : ExecStart(toks, val))
       /\ UNCHANGED <<semaVars, genVars, ppVars>>
  \/ ExecImm /\ UNCHANGED <<semaVars, genVars, ppVars>>
  \/ ExecMov /\ UNCHANGED <<semaVars, genVars, ppVars>>
  \/ ExecSubImm /\ UNCHANGED <<semaVars, genVars, ppVars>>
  \/ ExecLoad32 /\ UNCHANGED <<semaVars, genVars, ppVars>>
  \/ ExecUnless /\ UNCHANGED <<semaVars, genVars, ppVars>>
  \/ ExecJmp /\ UNCHANGED <<semaVars, genVars, ppVars>>
  \/ ExecLabel /\ UNCHANGED <<semaVars, genVars, ppVars>>
  \/ ExecKill /\ UNCHANGED <<semaVars, genVars, ppVars>>

SpecExec == InitExec /\ [][NextExec]_vars

InitPP == PPIdle /\ SemaIdle /\ GenIdle /\ ExecIdle

NextPP ==
  \/ (\E src \in PPSources : PPStart(src)) /\ UNCHANGED <<semaVars, genVars, execVars>>
  \/ PPCopy /\ UNCHANGED <<semaVars, genVars, execVars>>
  \/ PPApplyObjlike /\ UNCHANGED <<semaVars, genVars, execVars>>
  \/ PPApplyFunclike /\ UNCHANGED <<semaVars, genVars, execVars>>
  \/ PPDefine /\ UNCHANGED <<semaVars, genVars, execVars>>
  \/ PPInclude /\ UNCHANGED <<semaVars, genVars, execVars>>
  \/ PPBadDirective /\ UNCHANGED <<semaVars, genVars, execVars>>
  \/ PPFinish /\ UNCHANGED <<semaVars, genVars, execVars>>

SpecPP == InitPP /\ [][NextPP]_vars

====
